---- MODULE Spec2Model ----
(***************************************************************************)
(* A model of the PR TIMES enrichment and reconciliation pipeline:         *)
(*   - run_analysis of 02_analyzer.py (the checkpointed processor with its *)
(*     local filter, its remote judges, its periodic save and early stop), *)
(*   - the Gemini throttle of prtimes_beauty_today.py,                     *)
(*   - the reconciliation loop of 04_to_relate.py.                         *)
(*                                                                         *)
(* Text is modelled as a sequence of tokens: "word in text" of the source  *)
(* is "some token of text is word", the empty string is << >>.  Japanese   *)
(* and Korean literals of the source are written in romanised form, the    *)
(* original is given in the comment beside each.                           *)
(***************************************************************************)
EXTENDS Integers, Sequences, FiniteSets, TLC

VARIABLES
    \* ---- 02_analyzer.py, run_analysis ----
    OPENAI_API_KEY,   \* TRUE iff the credential is set in the environment
    SAVE_INTERVAL,    \* module setting, 02_analyzer.py line 26
    EARLY_STOP_N,     \* module setting, 02_analyzer.py line 27
    input_csv,        \* the raw CSV file: the records as the crawler wrote them
    df,               \* the raw CSV as loaded: a sequence of source records
    pc,               \* "loop" | "report" | "done" | "crashed"
    results,          \* the in-memory buffer of enriched rows
    suitable_count,   \* the counter of line 309
    final_csv,        \* the rows of final_<date>.csv on disk
    reported,         \* what line 376/378 reports: processed and suitable
    issued,           \* per record of this run: the remote calls issued for it
    faults,           \* number of remote calls of this run that failed
    flushed,          \* rows written by the latest save of this run
    run,              \* 1 for the first run, 2 for a rerun after a crash
    flushedAtCrash,   \* rows the first run had saved when it crashed
    \* ---- prtimes_beauty_today.py, the detail loop and the Gemini throttle ----
    GEMINI_API_KEY,                 \* TRUE iff the credential is set
    GEMINI_RATE_LIMIT_CALLS,        \* module setting, line 31
    GEMINI_RATE_LIMIT_WINDOW_SEC,   \* module setting, line 32
    now,                \* time.monotonic(), in seconds
    gemini_call_times,  \* _gemini_call_times, the deque of line 33
    gemini_lock,        \* _gemini_lock: 0 when free, else the task holding it
    callers,            \* the tasks that run the loop
    articles,           \* per task: the titles of the collected articles
    gpc,                \* per task: "idle" | "wait" | "sleep" | "call" | "detail"
    wake,               \* per task: when its asyncio.sleep ends
    verdicts,           \* per task: the verdict of each article so far
    pending,            \* per task: the verdict of the article in hand
    issue_log,          \* times of the latest remote calls issued
    \* ---- 04_to_relate.py, main ----
    remote_at_load,     \* what the remote store and the list held at start-up
    list_meta,          \* try_get_list_meta: NoList or the list's metadata
    all_values,         \* the data rows as read at start-up (line 377)
    ws,                 \* the data rows of the sheet, from the moment
                        \* main has read them
    target_rows,        \* the rows that passed the filter, with their index
    ri,                 \* position in target_rows of the next row
    rpc,                \* a preflight phase, then "loop", then "done";
                        \* "aborted" when main ended on an exception
    page,               \* pages of the current listing read so far
    rfaults,            \* requests that failed so far
    traffic,            \* upsert requests sent, listing reads sent after them
    existing_org_map,       \* name -> organization id
    existing_contact_map,   \* lower-cased email -> contact id
    existing_entry_map,     \* entryable id -> list entry id
    counts,             \* the counters of main
    relate_log,         \* the writes the remote store accepted, in order
    next_id,            \* the id the remote store gives to its next creation
    \* ---- one call of one judge, on its own ----
    jin,                \* the arguments: the credential and a text
    jout,               \* the judge called, the reply it got and its result
    \* ---- _save_intermediate called again and again ----
    saved,              \* the buffer handed to _save_intermediate; the file and the calls made
    \* ---- prtimes_beauty_crawler.py: the detail loop of main ----
    DETAIL_SAVE_INTERVAL, \* SAVE_INTERVAL of the crawler
    article_links,      \* articles: the links collected from the list pages
    detail_results,     \* results of the detail loop
    output_file,        \* OUTPUT_FILE: whether it exists and its rows
    file_at_start,      \* OUTPUT_FILE as the run found it
    dpc,                \* where the detail loop is
    \* ---- 03_to_sheets.py: main ----
    final_rows,         \* the rows of the final CSV handed to 03_to_sheets
    worksheet,          \* the worksheet: its header row and its data rows
    sheet_at_start,     \* the worksheet before the first run
    sheet_after_first,  \* the worksheet as the first run left it
    loads               \* runs of main completed

analysisVars == <<OPENAI_API_KEY, SAVE_INTERVAL, EARLY_STOP_N, input_csv, df, pc,
                  results,
                  suitable_count, final_csv, reported, issued, faults, flushed,
                  run, flushedAtCrash>>

crawlerVars == <<GEMINI_API_KEY, GEMINI_RATE_LIMIT_CALLS,
                 GEMINI_RATE_LIMIT_WINDOW_SEC, now, gemini_call_times,
                 gemini_lock, callers, articles, gpc, wake, verdicts, pending,
                 issue_log>>

relateVars == <<remote_at_load, list_meta, all_values, ws, target_rows, ri, rpc,
                page, rfaults, traffic,
                existing_org_map, existing_contact_map, existing_entry_map,
                counts, relate_log, next_id>>

judgeVars == <<jin, jout>>

saveVars == <<saved>>

detailVars == <<DETAIL_SAVE_INTERVAL, article_links, detail_results, output_file,
               file_at_start, dpc>>

sheetVars == <<final_rows, worksheet, sheet_at_start, sheet_after_first,
              loads>>

vars == <<analysisVars, crawlerVars, relateVars, judgeVars, saveVars, detailVars, sheetVars>>

\* What each program leaves alone: the state of the other programs.
notAnalysis == <<crawlerVars, relateVars, judgeVars, saveVars, detailVars, sheetVars>>
notCrawler == <<analysisVars, relateVars, judgeVars, saveVars, detailVars, sheetVars>>
notRelate == <<analysisVars, crawlerVars, judgeVars, saveVars, detailVars, sheetVars>>
notJudges == <<analysisVars, crawlerVars, relateVars, saveVars, detailVars, sheetVars>>
notSaves == <<analysisVars, crawlerVars, relateVars, judgeVars, detailVars, sheetVars>>
notDetail == <<analysisVars, crawlerVars, relateVars, judgeVars, saveVars, sheetVars>>
notSheets == <<analysisVars, crawlerVars, relateVars, judgeVars, saveVars, detailVars>>

(***************************************************************************)
(* Bounds of the model.                                                    *)
(***************************************************************************)
MaxTotal == 3        \* longest raw CSV
MaxFaults == 1       \* most remote calls that fail in one run
MaxArticles == 3     \* most articles collected by the crawler
MaxTime == 4         \* the clock stops here
MaxRows == 2         \* most data rows of the sheet
MaxPages == 2        \* most pages of one remote listing
MaxTasks == 2        \* most tasks judging at the same time
MaxShare == 1        \* most articles of one of several tasks
MaxWords == 2        \* most tokens of a text handed to a judge
MaxSaves == 2        \* most calls of _save_intermediate with one buffer
MaxListed == 3       \* most articles the list pages give
MaxCsvRows == 2      \* most rows of the final CSV handed to 03_to_sheets
MaxLoads == 2        \* most runs of 03_to_sheets on one CSV

\* The settings are module-level names of the source (SAVE_INTERVAL = 5,
\* EARLY_STOP_N = 10, GEMINI_RATE_LIMIT_CALLS = 15, ..._WINDOW_SEC = 60); the
\* model holds them in variables and explores small values of each.
SaveIntervals == {1, 2}     \* values of SAVE_INTERVAL explored
EarlyStops == {1, 2}        \* values of EARLY_STOP_N explored
RateLimits == {1, 2}        \* values of GEMINI_RATE_LIMIT_CALLS explored
Windows == {2}              \* values of GEMINI_RATE_LIMIT_WINDOW_SEC explored

(***************************************************************************)
(* Python values that are not strings.                                     *)
(***************************************************************************)
PyTrue == "<True>"
PyFalse == "<False>"
PyNone == "<None>"

PyStr(v) == \* str(v)
    CASE v = PyTrue -> "True"
      [] v = PyFalse -> "False"
      [] v = PyNone -> "None"
      [] OTHER -> v

IsPyStr(v) == v \notin {PyTrue, PyFalse, PyNone}

StripLower(s) == \* s.strip().lower() on the strings the model uses
    CASE s = "True" -> "true"
      [] s = "TRUE" -> "true"
      [] s = " true " -> "true"
      [] s = "False" -> "false"
      [] s = " kaisha-A " -> "kaisha-a"
      [] s = "Info@A.jp" -> "info@a.jp"
      [] OTHER -> s

(***************************************************************************)
(* 02_analyzer.py: settings.                                               *)
(***************************************************************************)
\* 回収 お詫び 訂正 不適合 中止 誤記 決算 人事 株価 訃報 事件 事故
\* アンケート 調査 実施 共同
NEGATIVE_KEYWORDS ==
    <<"kaishu", "owabi", "teisei", "futekigo", "chushi", "goki",
      "kessan", "jinji", "kabuka", "fuho", "jiken", "jiko",
      "anketo", "chosa", "jisshi", "kyodo">>

\* 韓国 韓国語 コリア K-POP K-ビューティー Kビューティー ソウル アモレ
\* アモレパシフィック エルジー LG生活 イニスフリー コスメ サムスン ヒュンダイ
\* トルリドン アヌア セウォルス コスリックス Korea Korean K-beauty
KOREA_KEYWORDS_JA ==
    <<"kankoku", "kankokugo", "koria", "K-POP", "K-byuti", "Kbyuti",
      "souru", "amore", "amorepacific", "eruji", "LGseikatsu",
      "innisfree", "kosume", "samsung", "hyundai", "torridon",
      "anua", "sewols", "cosrx", "Korea", "Korean", "K-beauty">>

Range(s) == {s[i] : i \in 1..Len(s)}

IsBlank(text) == \* not text or not str(text).strip()
    \A i \in 1..Len(text) : text[i] = " "

Strip(text) == \* text.strip(), on token sequences
    IF IsBlank(text) THEN << >> ELSE text

_is_suitable_value(val) ==
    IF val = PyTrue THEN TRUE
    ELSE IF IsPyStr(val) /\ StripLower(val) = "true" THEN TRUE
    ELSE FALSE

local_suitability_filter(title_jp) ==
    IF IsBlank(title_jp) THEN TRUE
    ELSE ~ \E w \in 1..Len(NEGATIVE_KEYWORDS) :
              NEGATIVE_KEYWORDS[w] \in Range(title_jp)

(***************************************************************************)
(* The remote inference service.  One call either raises (transport) or    *)
(* returns a text; a text is a JSON object or not (valid), is wrapped in a *)
(* ```json fence or not (fenced), and carries the fields of the object.    *)
(***************************************************************************)
Raise == [kind |-> "raise", fenced |-> FALSE, valid |-> FALSE,
          val |-> "", reason |-> ""]

Reply(fenced, valid, val, reason) ==
    [kind |-> "text", fenced |-> fenced, valid |-> valid,
     val |-> val, reason |-> reason]

Missing == "<missing>"   \* the key is absent from the JSON object

TranslateReplies == {Raise, Reply(FALSE, TRUE, "ko", "")}

MetaReplies == {Raise, Reply(FALSE, TRUE, "ko", "")}

SuitReplies ==
    {Raise,
     Reply(FALSE, FALSE, "", ""),
     Reply(FALSE, TRUE, PyTrue, "r"),
     Reply(TRUE, TRUE, PyTrue, "r"),
     Reply(FALSE, TRUE, PyFalse, "r"),
     Reply(FALSE, TRUE, "True", "r")}      \* {"is_suitable": "True", ...}

OriginReplies == {Raise, Reply(FALSE, TRUE, "non-KR", "r")}

\* A call that did not give its caller a usable answer.
IsFault(reply) == reply.kind = "raise" \/ ~reply.valid

\* re.sub(r"```json\s*|\s*```", "", raw).strip() then json.loads: the
\* fence is removed, the object is parsed when the text is one.
ParsesStripped(reply) == reply.kind = "text" /\ reply.valid

\* interpret_metadata_openai: the pattern is r"```json\\s*|\\s*```" (a
\* literal backslash before the s), which leaves a bare ``` fence line in
\* place: json.loads then fails on a fenced text.
ParsesMeta(reply) == reply.kind = "text" /\ reply.valid /\ ~reply.fenced

(***************************************************************************)
(* 02_analyzer.py: the judges.  Each returns its result and whether it     *)
(* issued the remote call.                                                 *)
(***************************************************************************)
_translate_ja_to_ko_openai(text, key, reply) ==
    IF IsBlank(text) THEN [value |-> << >>, called |-> FALSE]
    ELSE IF ~key THEN [value |-> << >>, called |-> FALSE]
    ELSE IF reply.kind = "raise" THEN [value |-> << >>, called |-> TRUE]
    ELSE [value |-> <<reply.val>> \o Strip(text), called |-> TRUE]

interpret_metadata_openai(key, reply) ==
    IF ~key THEN [value |-> "", called |-> FALSE]
    ELSE IF ParsesMeta(reply) THEN [value |-> reply.val, called |-> TRUE]
    ELSE [value |-> "", called |-> TRUE]

\* A suitability judge that does not look at the credential.
judge_suitability_without_key_test(title_jp, key, reply) ==
    IF ~local_suitability_filter(title_jp)
    THEN [suit |-> PyFalse, reason |-> "negative keyword (local filter)",
          called |-> FALSE]
    ELSE IF ParsesStripped(reply)
    THEN [suit |-> IF reply.val = Missing THEN PyFalse ELSE reply.val,
          reason |-> reply.reason, called |-> TRUE]
    ELSE [suit |-> PyFalse, reason |-> "API error", called |-> TRUE]

judge_suitability(title_jp, key, reply) ==
    IF ~local_suitability_filter(title_jp)
    THEN \* "부적합 키워드 포함 (로컬 필터)"
         [suit |-> PyFalse, reason |-> "negative keyword (local filter)",
          called |-> FALSE]
    ELSE IF ~key
    THEN \* "API Key 없음 (OPENAI_API_KEY)"
         [suit |-> PyNone, reason |-> "no API key (OPENAI_API_KEY)",
          called |-> FALSE]
    ELSE IF ParsesStripped(reply)
    THEN [suit |-> IF reply.val = Missing THEN PyFalse ELSE reply.val,
          reason |-> reply.reason, called |-> TRUE]
    ELSE \* except Exception as e: return False, f"API 오류: {str(e)}"
         [suit |-> PyFalse,
          reason |-> IF reply.kind = "raise" THEN "API error: transport"
                     ELSE "API error: parse",
          called |-> TRUE]

_has_korea_keyword_in_keywords(keywords_text) ==
    IF IsBlank(keywords_text) THEN [found |-> FALSE, matched |-> ""]
    ELSE LET hits == {w \in 1..Len(KOREA_KEYWORDS_JA) :
                         KOREA_KEYWORDS_JA[w] \in Range(keywords_text)}
         IN IF hits = {} THEN [found |-> FALSE, matched |-> ""]
            ELSE [found |-> TRUE,
                  matched |-> KOREA_KEYWORDS_JA[
                      CHOOSE w \in hits : \A v \in hits : w <= v]]

\* An origin judge that asks the remote service whenever it has a credential.
judge_korean_company_remote_first(keywords, key, reply) ==
    LET k == _has_korea_keyword_in_keywords(keywords)
    IN IF key
       THEN IF ParsesStripped(reply)
            THEN [label |-> IF reply.val \in {"KR", "non-KR", "unknown"}
                            THEN reply.val ELSE "unknown",
                  reason |-> reply.reason, called |-> TRUE]
            ELSE [label |-> "unknown", reason |-> "API error", called |-> TRUE]
       ELSE IF k.found
       THEN [label |-> "KR", reason |-> "keyword: " \o k.matched,
             called |-> FALSE]
       ELSE [label |-> "unknown", reason |-> "no API key", called |-> FALSE]

judge_korean_company(keywords, key, reply) ==
    LET k == _has_korea_keyword_in_keywords(keywords)
    IN IF k.found
       THEN [label |-> "KR", reason |-> "keyword: " \o k.matched,
             called |-> FALSE]
       ELSE IF ~key
       THEN [label |-> "unknown", reason |-> "no API key", called |-> FALSE]
       ELSE IF ParsesStripped(reply)
       THEN [label |-> IF reply.val \in {"KR", "non-KR", "unknown"}
                       THEN reply.val ELSE "unknown",
             reason |-> reply.reason, called |-> TRUE]
       ELSE [label |-> "unknown",
             reason |-> IF reply.kind = "raise" THEN "API error: transport"
                        ELSE "API error: parse",
             called |-> TRUE]

\* _ensure_columns: a value that is not a string becomes str(value), a
\* missing one (None, NaN) becomes "".
EnsureValue(v) ==
    IF v = PyNone THEN "" ELSE IF IsPyStr(v) THEN v ELSE PyStr(v)

_ensure_columns(out) == [out EXCEPT !.suit = EnsureValue(out.suit)]

\* A save that appends to the file instead of replacing it.
SaveAppending(res, old_file) == old_file \o res

\* _save_intermediate: DataFrame(results).to_csv(final_path) in the default
\* write mode: the file holds the rows of the buffer and nothing else.
_save_intermediate(res, old_file) == res

\* A save taken at the last record only.
ShouldSaveAtEnd(current, total, interval) == current = total

\* lines 363-364: every SAVE_INTERVAL records and at the last record.
ShouldSave(current, total, interval) ==
    current % interval = 0 \/ current = total

LastN(s, n) == IF Len(s) <= n THEN s ELSE SubSeq(s, Len(s) - n + 1, Len(s))

\* An early stop that looks one record too late.
EarlyStopLate(res, current, n) ==
    /\ current = n + 1
    /\ \A j \in 1..Len(LastN(res, n)) : ~_is_suitable_value(LastN(res, n)[j].suit)

\* An early stop that is looked at again after every later record.
EarlyStopRepeated(res, current, n) ==
    /\ current >= n
    /\ \A j \in 1..Len(LastN(res, n)) : ~_is_suitable_value(LastN(res, n)[j].suit)

\* lines 367-372
EarlyStop(res, current, n) ==
    /\ current = n
    /\ \A j \in 1..Len(LastN(res, n)) : ~_is_suitable_value(LastN(res, n)[j].suit)

(***************************************************************************)
(* Source records.                                                         *)
(***************************************************************************)
TitleClean == <<"shinhatsubai">>            \* 新発売
TitleNeg == <<"shinhatsubai", "chosa">>     \* 新発売 ... 調査

Titles == {TitleClean, TitleNeg}

\* The records of the raw CSV file: one with a clean title, one with a
\* title the local filter rejects and the company name the crawler writes
\* for a card without a company link (compJp || 'NULL',
\* prtimes_beauty_today.py line 361).
RawRecords ==
    {[title |-> TitleClean, comp |-> <<"kaisha">>, keywords |-> <<"skincare">>],
     [title |-> TitleNeg, comp |-> <<"NULL">>, keywords |-> <<"skincare">>]}

SeqsUpTo(S, n) == UNION {[1..k -> S] : k \in 0..n}

\* Cells pandas.read_csv takes for a missing value when keep_default_na is
\* left at its default, whatever dtype is given ("NULL"; likewise "NA",
\* "N/A", "null", "NaN", "nan", "None", "n/a", "<NA>", ...).
DefaultNaValues == {<<"NULL">>}

\* lines 302-303: pd.read_csv(input_path, encoding="utf-8-sig", dtype=str)
\* and df.fillna(""): every cell is a string, a missing one the empty string.
read_csv(file) ==
    [i \in 1..Len(file) |->
        [f \in DOMAIN file[i] |->
            IF file[i][f] \in DefaultNaValues THEN << >> ELSE file[i][f]]]

CallKinds == {"translate_title", "translate_comp", "metadata",
              "suitability", "origin"}

NoReport == [processed |-> -1, suitable |-> -1]

InitAnalysis ==
    /\ OPENAI_API_KEY \in BOOLEAN
    /\ SAVE_INTERVAL \in SaveIntervals
    /\ EARLY_STOP_N \in EarlyStops
    /\ input_csv \in SeqsUpTo(RawRecords, MaxTotal)
    /\ df = read_csv(input_csv)
    /\ pc = IF Len(df) = 0 THEN "report" ELSE "loop"
    /\ results = << >>
    /\ suitable_count = 0
    /\ final_csv = << >>
    /\ reported = NoReport
    /\ issued = [i \in 1..Len(df) |-> {}]
    /\ faults = 0
    /\ flushed = 0
    /\ run = 1
    /\ flushedAtCrash = 0

\* The replies the service may give to a call: none to choose when the call
\* is not issued.
RepliesTo(called, replies) == IF called THEN replies ELSE {Raise}

FaultCount(called, reply) == IF called /\ IsFault(reply) THEN 1 ELSE 0

\* One iteration of the loop of run_analysis, lines 312-372.
ProcessRecord ==
    /\ pc = "loop"
    /\ Len(results) < Len(df)
    /\ LET current == Len(results) + 1
           total == Len(df)
           row == df[current]
           key == OPENAI_API_KEY
       IN \E rt \in RepliesTo(_translate_ja_to_ko_openai(row.title, key, Raise).called,
                              TranslateReplies),
             rc \in RepliesTo(_translate_ja_to_ko_openai(row.comp, key, Raise).called,
                              TranslateReplies),
             rm \in RepliesTo(interpret_metadata_openai(key, Raise).called,
                              MetaReplies),
             rs \in RepliesTo(judge_suitability(row.title, key, Raise).called,
                              SuitReplies),
             ro \in RepliesTo(judge_korean_company(row.keywords, key, Raise).called,
                              OriginReplies) :
            LET title_ko == _translate_ja_to_ko_openai(row.title, key, rt)
                comp_ko == _translate_ja_to_ko_openai(row.comp, key, rc)
                meta == interpret_metadata_openai(key, rm)
                verdict == judge_suitability(row.title, key, rs)
                origin == judge_korean_company(row.keywords, key, ro)
                nfail == FaultCount(title_ko.called, rt) + FaultCount(comp_ko.called, rc)
                         + FaultCount(meta.called, rm) + FaultCount(verdict.called, rs)
                         + FaultCount(origin.called, ro)
                out == [title |-> row.title, comp |-> row.comp,
                        keywords |-> row.keywords,
                        title_ko |-> title_ko.value, comp_ko |-> comp_ko.value,
                        suit |-> verdict.suit, reason |-> verdict.reason,
                        kr_label |-> origin.label, kr_reason |-> origin.reason,
                        meta |-> meta.value]
                res == Append(results, _ensure_columns(out))
            IN /\ faults + nfail <= MaxFaults
               /\ faults' = faults + nfail
               /\ issued' = [issued EXCEPT ![current] =
                      {c \in CallKinds :
                          \/ c = "translate_title" /\ title_ko.called
                          \/ c = "translate_comp" /\ comp_ko.called
                          \/ c = "metadata" /\ meta.called
                          \/ c = "suitability" /\ verdict.called
                          \/ c = "origin" /\ origin.called}]
               /\ suitable_count' = IF verdict.suit = PyTrue
                                    THEN suitable_count + 1 ELSE suitable_count
               /\ results' = res
               /\ final_csv' = IF ShouldSave(current, total, SAVE_INTERVAL)
                               THEN _save_intermediate(res, final_csv)
                               ELSE final_csv
               /\ flushed' = IF ShouldSave(current, total, SAVE_INTERVAL)
                             THEN Len(res) ELSE flushed
               /\ pc' = IF EarlyStop(res, current, EARLY_STOP_N) \/ current = total
                        THEN "report" ELSE "loop"
    /\ UNCHANGED <<OPENAI_API_KEY, SAVE_INTERVAL, EARLY_STOP_N, input_csv, df, reported,
                   run, flushedAtCrash>>
    /\ UNCHANGED notAnalysis

\* lines 374-378: the summary and the mail.
Report ==
    /\ pc = "report"
    /\ reported' = [processed |-> Len(results), suitable |-> suitable_count]
    /\ pc' = "done"
    /\ UNCHANGED <<OPENAI_API_KEY, SAVE_INTERVAL, EARLY_STOP_N, input_csv, df, results,
                   suitable_count, final_csv, issued, faults, flushed, run,
                   flushedAtCrash>>
    /\ UNCHANGED notAnalysis

\* The process dies between two records: the buffer is lost, the file stays.
Crash ==
    /\ pc = "loop"
    /\ run = 1
    /\ pc' = "crashed"
    /\ flushedAtCrash' = flushed
    /\ UNCHANGED <<OPENAI_API_KEY, SAVE_INTERVAL, EARLY_STOP_N, input_csv, df, results,
                   suitable_count, final_csv, reported, issued, faults, flushed,
                   run>>
    /\ UNCHANGED notAnalysis

\* python 02_analyzer.py again on the same raw CSV: lines 296-310.
Rerun ==
    /\ pc = "crashed"
    /\ run' = 2
    /\ pc' = IF Len(df) = 0 THEN "report" ELSE "loop"
    /\ results' = << >>
    /\ suitable_count' = 0
    /\ issued' = [i \in 1..Len(df) |-> {}]
    /\ faults' = 0
    /\ flushed' = 0
    /\ UNCHANGED <<OPENAI_API_KEY, SAVE_INTERVAL, EARLY_STOP_N, input_csv, df, final_csv,
                   reported, flushedAtCrash>>
    /\ UNCHANGED notAnalysis

\* One run of run_analysis, from the loaded CSV to the report.
NextAnalysis == ProcessRecord \/ Report


\* A run that may die between two records and is then started again.
NextResume == ProcessRecord \/ Report \/ Crash \/ Rerun


(***************************************************************************)
(* prtimes_beauty_today.py: the local filter, the Gemini throttle, the     *)
(* judge and the detail loop of main.                                      *)
(***************************************************************************)
NEGATIVE_KEYWORDS_JA == NEGATIVE_KEYWORDS    \* the same list, lines 38-42

local_first_filter(title_jp) ==
    IF IsBlank(title_jp) THEN [passed |-> TRUE, reason |-> ""]
    ELSE LET hits == {w \in 1..Len(NEGATIVE_KEYWORDS_JA) :
                         NEGATIVE_KEYWORDS_JA[w] \in Range(title_jp)}
         IN IF hits = {} THEN [passed |-> TRUE, reason |-> ""]
            ELSE \* f"부적합 키워드 포함 ({word})"
                 [passed |-> FALSE,
                  reason |-> "negative keyword (" \o
                      NEGATIVE_KEYWORDS_JA[CHOOSE w \in hits :
                                              \A v \in hits : w <= v] \o ")"]

GeminiReplies ==
    {Raise,
     Reply(FALSE, FALSE, "", ""),
     Reply(FALSE, TRUE, PyTrue, "r"),
     Reply(TRUE, TRUE, PyFalse, "r")}

\* deque(maxlen=n).append(x)
AppendMaxlen(q, x, n) == IF Len(q) >= n THEN Append(Tail(q), x) ELSE Append(q, x)

\* The while loop of _wait_gemini_rate_limit from its test on, at time t:
\* either it leaves with the queue q, or it reaches asyncio.sleep.
RECURSIVE WaitLoop(_, _, _, _)
WaitLoop(q, t, calls, window) ==
    IF Len(q) >= calls
    THEN IF (q[1] + window) - t > 0
         THEN [q |-> q, sleeps |-> TRUE, until |-> q[1] + window]
         ELSE WaitLoop(Tail(q), t, calls, window)
    ELSE [q |-> q, sleeps |-> FALSE, until |-> 0]

LogIssue(log, t, calls) == LastN(Append(log, t), calls + 1)

\* The module just loaded, lines 31-34, and the tasks `tasks` about to judge
\* their articles, at most `most` each.
CrawlerStarts(tasks, most) ==
    /\ GEMINI_API_KEY \in BOOLEAN
    /\ GEMINI_RATE_LIMIT_CALLS \in RateLimits
    /\ GEMINI_RATE_LIMIT_WINDOW_SEC \in Windows
    /\ now = 0
    /\ gemini_call_times = << >>
    /\ gemini_lock = 0
    /\ callers = tasks
    /\ articles \in [callers -> SeqsUpTo(Titles, most)]
    /\ gpc = [t \in callers |-> "idle"]
    /\ wake = [t \in callers |-> 0]
    /\ verdicts = [t \in callers |-> << >>]
    /\ pending = [t \in callers |-> [suit |-> PyNone, reason |-> "", called |-> FALSE]]
    /\ issue_log = << >>

\* main awaits judge_news_suitability article by article (line 408): one task.
InitCrawler == CrawlerStarts({1}, MaxArticles)

\* judge_news_suitability awaited by several tasks of one event loop, each
\* with articles of its own.
InitConcurrent == CrawlerStarts(1..MaxTasks, MaxShare)

\* main, lines 396-408: the next article, its local filter, and
\* judge_news_suitability up to its remote path (lines 122-138).
BeginArticle(t) ==
    /\ gpc[t] = "idle"
    /\ Len(verdicts[t]) < Len(articles[t])
    /\ LET title_jp == articles[t][Len(verdicts[t]) + 1]
           f == local_first_filter(title_jp)
       IN IF ~f.passed
          THEN /\ pending' = [pending EXCEPT ![t] =
                     [suit |-> PyFalse, reason |-> f.reason, called |-> FALSE]]
               /\ gpc' = [gpc EXCEPT ![t] = "detail"]
          ELSE IF ~GEMINI_API_KEY
          THEN \* "API Key 없음 (Gemini_Git_API_Key 환경변수 설정)"
               /\ pending' = [pending EXCEPT ![t] =
                     [suit |-> PyNone, reason |-> "no API key (Gemini_Git_API_Key)",
                      called |-> FALSE]]
               /\ gpc' = [gpc EXCEPT ![t] = "detail"]
          ELSE \* lines 129-138: the client library is imported and the model
               \* is built; when that raises, the handler re-raises (line
               \* 138, or list_models raises first) and no try of main is
               \* around the await of line 408.
               /\ \E built \in BOOLEAN :
                     gpc' = [gpc EXCEPT ![t] = IF built THEN "wait" ELSE "raised"]
               /\ UNCHANGED pending
    /\ UNCHANGED <<GEMINI_API_KEY, GEMINI_RATE_LIMIT_CALLS,
                   GEMINI_RATE_LIMIT_WINDOW_SEC, now, gemini_call_times,
                   gemini_lock, callers, articles, wake, verdicts, issue_log>>
    /\ UNCHANGED notCrawler

\* Leaving _wait_gemini_rate_limit with the queue q: the lock is released and
\* the remote call is issued (lines 157-162).
IssueCall(t, q) ==
    /\ gemini_call_times' = q
    /\ gemini_lock' = 0
    /\ gpc' = [gpc EXCEPT ![t] = "call"]
    /\ issue_log' = LogIssue(issue_log, now, GEMINI_RATE_LIMIT_CALLS)
    /\ UNCHANGED wake

\* A sleep that ends one second before the oldest call leaves the window.
GoToSleepShort(t, until) ==
    /\ gemini_lock' = t
    /\ gpc' = [gpc EXCEPT ![t] = "sleep"]
    /\ wake' = [wake EXCEPT ![t] = until - 1]
    /\ UNCHANGED <<gemini_call_times, issue_log>>

\* Reaching asyncio.sleep(wait_sec) of line 109, the lock held.
GoToSleep(t, until) ==
    /\ gemini_lock' = t
    /\ gpc' = [gpc EXCEPT ![t] = "sleep"]
    /\ wake' = [wake EXCEPT ![t] = until]
    /\ UNCHANGED <<gemini_call_times, issue_log>>

\* _wait_gemini_rate_limit, lines 104-109: the lock is taken and the loop runs
\* to its exit or to its sleep.
WaitRateLimit(t) ==
    /\ gpc[t] = "wait"
    /\ gemini_lock = 0
    /\ LET w == WaitLoop(gemini_call_times, now, GEMINI_RATE_LIMIT_CALLS,
                         GEMINI_RATE_LIMIT_WINDOW_SEC)
       IN IF w.sleeps THEN GoToSleep(t, w.until) ELSE IssueCall(t, w.q)
    /\ UNCHANGED <<GEMINI_API_KEY, GEMINI_RATE_LIMIT_CALLS,
                   GEMINI_RATE_LIMIT_WINDOW_SEC, now, callers, articles,
                   verdicts, pending>>
    /\ UNCHANGED notCrawler

\* lines 110-111 and on: the sleep is over, the oldest entry is dropped, the
\* loop goes on.
AfterSleep(t) ==
    /\ gpc[t] = "sleep"
    /\ now >= wake[t]
    /\ LET w == WaitLoop(Tail(gemini_call_times), now, GEMINI_RATE_LIMIT_CALLS,
                         GEMINI_RATE_LIMIT_WINDOW_SEC)
       IN IF w.sleeps
          THEN /\ gemini_call_times' = Tail(gemini_call_times)
               /\ wake' = [wake EXCEPT ![t] = w.until]
               /\ UNCHANGED <<gemini_lock, gpc, issue_log>>
          ELSE IssueCall(t, w.q)
    /\ UNCHANGED <<GEMINI_API_KEY, GEMINI_RATE_LIMIT_CALLS,
                   GEMINI_RATE_LIMIT_WINDOW_SEC, now, callers, articles,
                   verdicts, pending>>
    /\ UNCHANGED notCrawler

\* The verdict of judge_news_suitability for a reply, lines 164-168.
GeminiVerdict(reply) ==
    IF reply.kind = "text" /\ reply.valid
    THEN [suit |-> IF reply.val = Missing THEN PyFalse ELSE reply.val,
          reason |-> reply.reason, called |-> TRUE]
    ELSE [suit |-> PyFalse,
          reason |-> IF reply.kind = "raise" THEN "API error: transport"
                     ELSE "API error: parse",
          called |-> TRUE]

\* _record_gemini_call after a reply that `kind` describes: line 163 is
\* reached only when the call returned.
RecordedAfter(q, kind, t, calls) ==
    IF kind = "raise" THEN q ELSE AppendMaxlen(q, t, calls)

\* lines 158-168: the remote call ends; when it returned, the call is recorded
\* under the lock and the reply is parsed; when it raised, neither happens.
CallEnds(t) ==
    /\ gpc[t] = "call"
    /\ \E reply \in GeminiReplies :
        /\ reply.kind = "text" => gemini_lock = 0
        /\ gemini_call_times' = RecordedAfter(gemini_call_times, reply.kind, now,
                                              GEMINI_RATE_LIMIT_CALLS)
        /\ pending' = [pending EXCEPT ![t] = GeminiVerdict(reply)]
    /\ gpc' = [gpc EXCEPT ![t] = "detail"]
    /\ UNCHANGED <<GEMINI_API_KEY, GEMINI_RATE_LIMIT_CALLS,
                   GEMINI_RATE_LIMIT_WINDOW_SEC, now, gemini_lock, callers,
                   articles, wake, verdicts, issue_log>>
    /\ UNCHANGED notCrawler

\* main, lines 410-453: the record of the article, with the verdict, is
\* appended to results.
FinishArticle(t) ==
    /\ gpc[t] = "detail"
    /\ verdicts' = [verdicts EXCEPT ![t] = Append(@, pending[t])]
    /\ gpc' = [gpc EXCEPT ![t] = "idle"]
    /\ UNCHANGED <<GEMINI_API_KEY, GEMINI_RATE_LIMIT_CALLS,
                   GEMINI_RATE_LIMIT_WINDOW_SEC, now, gemini_call_times,
                   gemini_lock, callers, articles, wake, pending, issue_log>>
    /\ UNCHANGED notCrawler

\* One second passes.
Tick ==
    /\ now < MaxTime
    /\ now' = now + 1
    /\ UNCHANGED <<GEMINI_API_KEY, GEMINI_RATE_LIMIT_CALLS,
                   GEMINI_RATE_LIMIT_WINDOW_SEC, gemini_call_times, gemini_lock,
                   callers, articles, gpc, wake, verdicts, pending, issue_log>>
    /\ UNCHANGED notCrawler

NextCrawler ==
    \/ \E t \in callers : BeginArticle(t)
    \/ \E t \in callers : WaitRateLimit(t)
    \/ \E t \in callers : AfterSleep(t)
    \/ \E t \in callers : CallEnds(t)
    \/ \E t \in callers : FinishArticle(t)
    \/ Tick


(***************************************************************************)
(* 04_to_relate.py: the upserts and main.  Ids are positive numbers and 0   *)
(* stands for None or the empty string, the values Python takes as false.  *)
(***************************************************************************)
NoList == [present |-> FALSE, entry_type |-> ""]
ListOf(entry_type) == [present |-> TRUE, entry_type |-> entry_type]

\* dict.get(k) and d[k] = v on dicts held as functions
Get(d, k) == IF k \in DOMAIN d THEN d[k] ELSE 0
Put(d, k, v) == [x \in DOMAIN d \cup {k} |-> IF x = k THEN v ELSE d[x]]

col(cell) == \* str(cell or "").strip()
    CASE cell = " kaisha-A " -> "kaisha-A"
      [] OTHER -> cell

parse_domain(url) ==
    CASE col(url) = "" -> "<None>"
      [] url = "https://www.a.jp/contact" -> "a.jp"
      [] url = "b.jp" -> "b.jp"
      [] OTHER -> "<None>"

\* The data rows the sheet may hold.
SheetRows ==
    {[name |-> "kaisha-A", email |-> "info@a.jp", url |-> "https://www.a.jp/contact",
      suit |-> "True", korea |-> "non-KR", status |-> "", msg |-> ""],
     [name |-> " kaisha-A ", email |-> "Info@A.jp", url |-> "",
      suit |-> "TRUE", korea |-> "non-KR", status |-> "", msg |-> ""],
     \* a row whose status was cleared for a new attempt, the message left
     [name |-> "kaisha-B", email |-> "pr@b.jp", url |-> "b.jp",
      suit |-> "True", korea |-> "non-KR", status |-> "", msg |-> "Org error"],
     [name |-> "", email |-> "pr@b.jp", url |-> "",
      suit |-> "True", korea |-> "non-KR", status |-> "", msg |-> ""],
     \* a row an earlier run has flagged
     [name |-> "kaisha-A", email |-> "info@a.jp", url |-> "",
      suit |-> "True", korea |-> "non-KR", status |-> "failed",
      msg |-> "Org failed: 500"],
     [name |-> "kaisha-B", email |-> "pr@b.jp", url |-> "",
      suit |-> "False", korea |-> "KR", status |-> "", msg |-> ""]}

\* One eligible row and the rows that fail one test of the filter each.
EligibleRow ==
    [name |-> "kaisha-A", email |-> "info@a.jp", url |-> "",
     suit |-> "True", korea |-> "non-KR", status |-> "", msg |-> ""]
EligibilityRows ==
    {EligibleRow,
     [EligibleRow EXCEPT !.suit = "False"],
     [EligibleRow EXCEPT !.suit = ""],
     [EligibleRow EXCEPT !.korea = "unknown"],
     [EligibleRow EXCEPT !.korea = "KR"],
     [EligibleRow EXCEPT !.email = ""],
     [EligibleRow EXCEPT !.email = "WordPress@b.jp"],
     [EligibleRow EXCEPT !.status = "done"]}

HasWordpress(email) == \* "wordpress" in email.lower()
    email \in {"wordpress@b.jp", "WordPress@b.jp"}

\* A filter that lets every origin but the domestic one through.
IsCandidateUnlessDomestic(row) ==
    /\ StripLower(col(row.suit)) = "true"
    /\ col(row.korea) # "KR"
    /\ col(row.email) # ""
    /\ ~HasWordpress(col(row.email))

\* main, lines 420-435: the filter of the rows.
IsCandidate(row) ==
    /\ StripLower(col(row.suit)) = "true"
    /\ col(row.korea) = "non-KR"
    /\ col(row.email) # ""
    /\ ~HasWordpress(col(row.email))

NeverFlagged(row) == FALSE

\* main, line 432: the row already has a status.
IsFlagged(row) == col(row.status) # ""

RECURSIVE FilterTargets(_, _)
FilterTargets(rows, i) ==
    IF i > Len(rows) THEN << >>
    ELSE IF IsCandidate(rows[i]) /\ ~IsFlagged(rows[i])
         THEN <<[idx |-> i, row |-> rows[i]]>> \o FilterTargets(rows, i + 1)
         ELSE FilterTargets(rows, i + 1)

SkipCount(rows) ==
    Cardinality({i \in 1..Len(rows) :
                    IsCandidate(rows[i]) /\ IsFlagged(rows[i])})

\* What the remote store may hold at start-up.
PreloadedOrgId == 1
PreloadedContactId == 2
FirstFreshId == 3
EntryIdOf(entryable_id) == 10 + entryable_id
ListMetas == {NoList, ListOf("Contact"), ListOf("")}

EmptyStore(list) ==
    [orgs |-> << >>, contacts |-> << >>, listed |-> FALSE, list |-> list]
StoreWithA(listed, list) ==
    [orgs |-> [n \in {"kaisha-A"} |-> PreloadedOrgId],
     contacts |-> [e \in {"Info@A.jp"} |-> PreloadedContactId],
     listed |-> listed, list |-> list]
RemoteStores ==
    {EmptyStore(l) : l \in ListMetas}
    \cup {StoreWithA(FALSE, l) : l \in ListMetas}
    \cup {StoreWithA(TRUE, l) : l \in ListMetas \ {NoList}}

build_existing_org_map_by_name(remote) == remote.orgs
build_existing_contact_map_by_email(remote) ==
    \* em = str(e or "").strip().lower(); the first contact of an email wins
    LET keys == {StripLower(e) : e \in DOMAIN remote.contacts}
    IN [k \in keys |->
           remote.contacts[CHOOSE e \in DOMAIN remote.contacts : StripLower(e) = k]]
build_existing_list_entry_map(remote) ==
    IF remote.listed
    THEN LET ids == {remote.orgs[n] : n \in DOMAIN remote.orgs}
                    \cup {remote.contacts[e] : e \in DOMAIN remote.contacts}
         IN [i \in ids |-> EntryIdOf(i)]
    ELSE << >>

\* The replies of the remote store to one request.
\* "422" is the rejection of the supplied domain, "422/other" a 422 the store
\* gives for another reason (a custom field, the name).
OrgResponses == {"2xx", "422", "422/other", "exc"}
\* to the request repeated without the domains field
OrgRetryResponses == OrgResponses \ {"422"}
ContactResponses == {"2xx", "422", "500", "exc"}   \* to a PATCH
ContactCreateResponses == {"2xx", "422", "exc"}     \* to a POST
EntryResponses == {"2xx", "422", "exc"}
Is2xx(r) == r = "2xx"
\* r.status_code as the caller reads it.
StatusCode(r) == IF r = "422/other" THEN "422" ELSE r

\* One outbound request: its method, whether its payload carries the
\* domains field and the organization_id field, and the reply it got.
Call(method, domains, org, reply) ==
    [method |-> method, domains |-> domains, org |-> org, reply |-> reply]

\* What an upsert gives back: its value when it returns, else what it raised;
\* calls are the requests it sent, in order.
Returned(id, action, calls) ==
    [ok |-> TRUE, id |-> id, action |-> action, raised |-> "", code |-> "",
     calls |-> calls, sent |-> Len(calls)]
Raised(r, calls) ==
    [ok |-> FALSE, id |-> 0, action |-> "",
     raised |-> IF r = "exc" THEN "Exception" ELSE "HTTPError",
     code |-> IF r = "exc" THEN "" ELSE StatusCode(r), calls |-> calls, sent |-> Len(calls)]

OrgCallsKeepingDomain(method, domain, r1, r2) ==
    IF StatusCode(r1) = "422" /\ domain # "<None>"
    THEN <<Call(method, TRUE, FALSE, r1), Call(method, TRUE, FALSE, r2)>>
    ELSE <<Call(method, domain # "<None>", FALSE, r1)>>

\* _post_with_fallback / _patch_with_fallback: r1 answers the first request,
\* r2 the request repeated without the domains field.
OrgCalls(method, domain, r1, r2) ==
    IF StatusCode(r1) = "422" /\ domain # "<None>"
    THEN <<Call(method, TRUE, FALSE, r1), Call(method, FALSE, FALSE, r2)>>
    ELSE <<Call(method, domain # "<None>", FALSE, r1)>>

upsert_organization(name, domain, existing_org_id, r1, r2, fresh) ==
    LET calls == OrgCalls(IF existing_org_id # 0 THEN "PATCH" ELSE "POST",
                          domain, r1, r2)
        resp == calls[Len(calls)].reply
    IN IF ~Is2xx(resp) THEN Raised(resp, calls)
       ELSE IF existing_org_id # 0 THEN Returned(existing_org_id, "updated", calls)
       ELSE Returned(fresh, "created", calls)

\* r1 answers the first request, r2 the PATCH repeated without organization_id.
upsert_contact(org_id, email, existing_contact_id, r1, r2, fresh) ==
    IF col(email) = "" THEN Raised("exc", << >>)
    ELSE IF existing_contact_id # 0
    THEN IF r1 = "422"
         THEN LET calls == <<Call("PATCH", FALSE, TRUE, r1),
                             Call("PATCH", FALSE, FALSE, r2)>>
              IN IF Is2xx(r2) THEN Returned(existing_contact_id, "updated", calls)
                 ELSE Raised(r2, calls)
         ELSE LET calls == <<Call("PATCH", FALSE, TRUE, r1)>>
              IN IF Is2xx(r1) THEN Returned(existing_contact_id, "updated", calls)
                 ELSE Raised(r1, calls)
    ELSE LET calls == <<Call("POST", FALSE, TRUE, r1)>>
         IN IF ~Is2xx(r1) THEN Raised(r1, calls)
            ELSE \* str(r.json().get("id") or "").strip(), the id the store gave
                 Returned(fresh, "created", calls)

upsert_list_entry(entryable_id, entryable_type, existing_entry_id, r1) ==
    LET calls == <<Call(IF existing_entry_id # 0 THEN "PATCH" ELSE "POST",
                        FALSE, FALSE, r1)>>
    IN IF ~Is2xx(r1) THEN Raised(r1, calls)
       ELSE IF existing_entry_id # 0 THEN Returned(0, "updated", calls)
       ELSE Returned(0, "created", calls)

\* The message main writes for an upsert that raised.
FailureMessage(what, res) ==
    IF res.raised = "HTTPError" THEN what \o " failed: " \o res.code
    ELSE what \o " error"

ForgetOrg(map, name, org_id) == map

\* main, line 486 / 520: the id is remembered under its key.
RememberOrg(map, name, org_id) == Put(map, name, org_id)
RememberContactAsTyped(map, email, contact_id) == Put(map, col(email), contact_id)
RememberContact(map, email, contact_id) == Put(map, StripLower(col(email)), contact_id)

\* main, lines 542-543.
EntryableType(meta) == IF col(meta.entry_type) = "" THEN "Organization" ELSE col(meta.entry_type)

NoCounts ==
    [success_count |-> 0, fail_count |-> 0, skip_count |-> 0,
     org_created |-> 0, org_updated |-> 0,
     contact_created |-> 0, contact_updated |-> 0,
     list_created |-> 0, list_updated |-> 0]

NoTraffic == [upserts |-> 0, late_reads |-> 0]

InitRelate ==
    /\ remote_at_load \in RemoteStores
    /\ list_meta = NoList
    /\ all_values = << >>
    /\ ws = << >>
    /\ target_rows = << >>
    /\ ri = 1
    /\ rpc = "org_fields"
    /\ page = 0
    /\ rfaults = 0
    /\ traffic = NoTraffic
    /\ existing_org_map = << >>
    /\ existing_contact_map = << >>
    /\ existing_entry_map = << >>
    /\ counts = NoCounts
    /\ relate_log = << >>
    /\ next_id = FirstFreshId

\* A remote read is sent: it is a late one when an upsert was sent before.
AfterRead(tr) ==
    [tr EXCEPT !.late_reads = @ + (IF tr.upserts > 0 THEN 1 ELSE 0)]

\* What main holds before its loop, as one record.
PreflightState ==
    [rpc |-> rpc, page |-> page, list_meta |-> list_meta,
     all_values |-> all_values, target_rows |-> target_rows,
     org_map |-> existing_org_map, contact_map |-> existing_contact_map,
     entry_map |-> existing_entry_map, counts |-> counts]

\* main, lines 420-438: the filter, then the loop.
EnterLoop(st) ==
    [st EXCEPT !.rpc = "loop", !.page = 0,
               !.target_rows = FilterTargets(st.all_values, 1),
               !.counts.skip_count = SkipCount(st.all_values)]

\* main, lines 360-417: one step of the preflight.  The reply of the remote
\* side is "ok", "more" (a page with has_next_page) or "fail".
PreflightStep(st, remote, sheet, reply) ==
    CASE st.rpc = "org_fields" ->       \* ensure_org_custom_fields
           [st EXCEPT !.rpc = IF reply = "fail" THEN "aborted" ELSE "list_meta"]
      [] st.rpc = "list_meta" ->        \* try_get_list_meta
           IF reply = "fail" \/ ~remote.list.present
           THEN [st EXCEPT !.rpc = "sheet", !.list_meta = NoList]
           ELSE [st EXCEPT !.rpc = "list_fields", !.list_meta = remote.list]
      [] st.rpc = "list_fields" ->      \* ensure_list_fields, failure reported
           [st EXCEPT !.rpc = "sheet"]
      [] st.rpc = "sheet" ->            \* ws.get_all_values
           IF reply = "fail" THEN [st EXCEPT !.rpc = "aborted"]
           ELSE IF Len(sheet) < 1 THEN [st EXCEPT !.rpc = "done"]
           ELSE [st EXCEPT !.rpc = "contact_fields", !.all_values = sheet]
      [] st.rpc = "contact_fields" ->   \* ensure_contact_custom_fields
           [st EXCEPT !.rpc = IF reply = "fail" THEN "aborted" ELSE "orgs"]
      [] st.rpc = "orgs" ->             \* build_existing_org_map_by_name
           IF reply = "fail" THEN [st EXCEPT !.rpc = "aborted"]
           ELSE IF reply = "more" THEN [st EXCEPT !.page = @ + 1]
           ELSE [st EXCEPT !.rpc = "contacts", !.page = 0,
                           !.org_map = build_existing_org_map_by_name(remote)]
      [] st.rpc = "contacts" ->         \* build_existing_contact_map_by_email
           IF reply = "fail" THEN [st EXCEPT !.rpc = "aborted"]
           ELSE IF reply = "more" THEN [st EXCEPT !.page = @ + 1]
           ELSE LET st1 == [st EXCEPT !.page = 0, !.contact_map =
                               build_existing_contact_map_by_email(remote)]
                IN IF st.list_meta.present
                   THEN [st1 EXCEPT !.rpc = "entries"]
                   ELSE EnterLoop(st1)
      [] OTHER ->                       \* build_existing_list_entry_map
           IF reply = "fail" THEN EnterLoop(st)
           ELSE IF reply = "more" THEN [st EXCEPT !.page = @ + 1]
           ELSE EnterLoop([st EXCEPT !.entry_map =
                               build_existing_list_entry_map(remote)])

PreflightPhases ==
    {"org_fields", "list_meta", "list_fields", "sheet", "contact_fields",
     "orgs", "contacts", "entries"}
PagedPhases == {"orgs", "contacts", "entries"}

\* main, lines 355-417, over a worksheet whose data rows are rows of `rows`.
PreflightOver(rows) ==
    /\ rpc \in PreflightPhases
    /\ \E reply \in {"ok", "more", "fail"},
          sheet \in IF rpc = "sheet" THEN SeqsUpTo(rows, MaxRows) ELSE {ws} :
          /\ reply = "more" => rpc \in PagedPhases /\ page + 1 < MaxPages
          /\ reply = "fail" => rfaults < MaxFaults
          /\ rfaults' = rfaults + (IF reply = "fail" THEN 1 ELSE 0)
          /\ LET st == PreflightStep(PreflightState, remote_at_load, sheet, reply)
             IN /\ rpc' = st.rpc
                /\ ws' = st.all_values
                /\ page' = st.page
                /\ list_meta' = st.list_meta
                /\ all_values' = st.all_values
                /\ target_rows' = st.target_rows
                /\ existing_org_map' = st.org_map
                /\ existing_contact_map' = st.contact_map
                /\ existing_entry_map' = st.entry_map
                /\ counts' = st.counts
    /\ traffic' = IF rpc = "sheet" THEN traffic ELSE AfterRead(traffic)
    /\ UNCHANGED <<remote_at_load, ri, relate_log, next_id>>
    /\ UNCHANGED notRelate

Preflight == PreflightOver(SheetRows)

\* The state main works on, as one record.
RelateState ==
    [ws |-> ws, org_map |-> existing_org_map, contact_map |-> existing_contact_map,
     entry_map |-> existing_entry_map, counts |-> counts, log |-> relate_log,
     next_id |-> next_id]

Faults(calls) == Cardinality({i \in DOMAIN calls : ~Is2xx(calls[i].reply)})

\* The two update_cell calls and the counter of a failed row, then `continue`.
MarkFailed(st, idx, message) ==
    [st EXCEPT !.ws[idx].msg = message, !.ws[idx].status = "failed",
               !.counts.fail_count = @ + 1]

MarkDoneKeepingMessage(st, idx) ==
    [st EXCEPT !.ws[idx].status = "done", !.counts.success_count = @ + 1]

\* main, lines 578-580.
MarkDone(st, idx) ==
    [st EXCEPT !.ws[idx].status = "done", !.ws[idx].msg = "",
               !.counts.success_count = @ + 1]

Written(row, kind, res, key, org_id) ==
    [row |-> row, kind |-> kind, verb |-> res.action, key |-> key, id |-> res.id,
     org |-> org_id, calls |-> res.calls]

Counted(c, kind, action) ==
    CASE kind = "org" /\ action = "created" -> [c EXCEPT !.org_created = @ + 1]
      [] kind = "org" -> [c EXCEPT !.org_updated = @ + 1]
      [] kind = "contact" /\ action = "created" -> [c EXCEPT !.contact_created = @ + 1]
      [] kind = "contact" -> [c EXCEPT !.contact_updated = @ + 1]
      [] kind = "entry" /\ action = "created" -> [c EXCEPT !.list_created = @ + 1]
      [] OTHER -> [c EXCEPT !.list_updated = @ + 1]

Created(res) == IF res.ok /\ res.action = "created" THEN 1 ELSE 0

\* main, lines 540-580: the List entry of the row, then the row is done.
EntryStep(st, meta, t, org_id, contact_id, e1) ==
    IF ~meta.present THEN [st |-> MarkDone(st, t.idx), calls |-> << >>]
    ELSE LET entryable_type == EntryableType(meta)
             entryable_id == IF entryable_type = "Organization" THEN org_id
                             ELSE contact_id
             res == upsert_list_entry(entryable_id, entryable_type,
                                      Get(st.entry_map, entryable_id), e1)
         IN IF ~res.ok
            THEN [st |-> MarkFailed(st, t.idx, FailureMessage("List entry", res)),
                  calls |-> res.calls]
            ELSE [st |-> MarkDone(
                     [st EXCEPT !.counts = Counted(@, "entry", res.action),
                                !.log = Append(@, Written(t.idx, "entry", res,
                                                          entryable_id, org_id))],
                     t.idx),
                  calls |-> res.calls]

\* main, lines 506-538: the Contact of the row, then its List entry.
ContactStep(st, meta, t, org_id, existing_contact_id, c1, c2, e1) ==
    LET email == col(t.row.email)
        res == upsert_contact(org_id, email, existing_contact_id, c1, c2,
                              st.next_id)
    IN IF email = ""
       THEN [st |-> MarkFailed(st, t.idx, "Contact failed: no email"),
             calls |-> << >>]
       ELSE IF ~res.ok
       THEN [st |-> MarkFailed(st, t.idx, FailureMessage("Contact", res)),
             calls |-> res.calls]
       ELSE LET st1 == [st EXCEPT
                           !.contact_map = RememberContact(@, email, res.id),
                           !.counts = Counted(@, "contact", res.action),
                           !.log = Append(@, Written(t.idx, "contact", res,
                                                     email, org_id)),
                           !.next_id = @ + Created(res)]
                e == EntryStep(st1, meta, t, org_id, res.id, e1)
            IN [st |-> e.st, calls |-> res.calls \o e.calls]

\* main, lines 446-580: one pass of the loop over target_rows.
ProcessRow(st, meta, t, o1, o2, c1, c2, e1) ==
    LET name == col(t.row.name)
        domain == parse_domain(col(t.row.url))
        email == col(t.row.email)
        existing_org_id == Get(st.org_map, name)
        existing_contact_id == IF email # ""
                               THEN Get(st.contact_map, StripLower(email)) ELSE 0
        org == upsert_organization(name, domain, existing_org_id, o1, o2,
                                   st.next_id)
    IN IF name = ""
       THEN [st |-> MarkFailed(st, t.idx, "no company name"),
             calls |-> << >>]
       ELSE IF ~org.ok
       THEN [st |-> MarkFailed(st, t.idx, FailureMessage("Org", org)),
             calls |-> org.calls]
       ELSE LET st1 == [st EXCEPT
                           !.org_map = RememberOrg(@, name, org.id),
                           !.counts = Counted(@, "org", org.action),
                           !.log = Append(@, Written(t.idx, "org", org, name,
                                                     org.id)),
                           !.next_id = @ + Created(org)]
                c == ContactStep(st1, meta, t, org.id, existing_contact_id,
                                 c1, c2, e1)
            IN [st |-> c.st, calls |-> org.calls \o c.calls]

\* The replies to choose from: those of S for a request that is sent.
RepliesFor(sent, S) == IF sent THEN S ELSE {"2xx"}

\* The row failed on a remote request.
FailedRemotely(r) ==
    r.st.counts.fail_count > counts.fail_count /\ r.calls # << >>

RowReadsRequerying(calls) == Len(calls)

\* The listing reads of one pass of the loop: the upserts send POST and
\* PATCH requests only, the identities are looked up in the maps.
RowReads(calls) == 0

AbortOnFailure(r) == IF FailedRemotely(r) THEN "aborted" ELSE "loop"

\* The except branches end in `continue`, the body ends at the end of the
\* for statement: in both cases the loop goes on.
AfterRow(r) == "loop"

ReconcileRow ==
    /\ rpc = "loop"
    /\ ri <= Len(target_rows)
    /\ LET t == target_rows[ri]
           name == col(t.row.name)
           domain == parse_domain(col(t.row.url))
           known == Get(existing_contact_map, StripLower(col(t.row.email)))
       IN \E o1 \in RepliesFor(name # "", OrgResponses) :
          \E o2 \in RepliesFor(name # "" /\ StatusCode(o1) = "422"
                                  /\ domain # "<None>",
                               OrgRetryResponses) :
          LET org == upsert_organization(name, domain, Get(existing_org_map, name),
                                         o1, o2, next_id)
          IN /\ rfaults + Faults(org.calls) <= MaxFaults
             /\ \E c1 \in RepliesFor(name # "" /\ org.ok,
                                     IF known # 0 THEN ContactResponses
                                     ELSE ContactCreateResponses) :
                \E c2 \in RepliesFor(name # "" /\ org.ok /\ known # 0 /\ c1 = "422",
                                     ContactResponses) :
                LET con == upsert_contact(org.id, t.row.email, known, c1, c2, next_id)
                IN \E e1 \in RepliesFor(name # "" /\ org.ok /\ con.ok
                                           /\ list_meta.present, EntryResponses) :
                   LET r == ProcessRow(RelateState, list_meta, t, o1, o2, c1, c2, e1)
                   IN /\ rfaults + Faults(r.calls) <= MaxFaults
                      /\ rfaults' = rfaults + Faults(r.calls)
                      /\ traffic' = [upserts |-> traffic.upserts + Len(r.calls),
                                     late_reads |-> traffic.late_reads
                                                    + RowReads(r.calls)]
                      /\ ws' = r.st.ws
                      /\ existing_org_map' = r.st.org_map
                      /\ existing_contact_map' = r.st.contact_map
                      /\ existing_entry_map' = r.st.entry_map
                      /\ counts' = r.st.counts
                      /\ relate_log' = r.st.log
                      /\ next_id' = r.st.next_id
                      /\ rpc' = AfterRow(r)
    /\ ri' = ri + 1
    /\ UNCHANGED <<remote_at_load, list_meta, all_values, target_rows, page>>
    /\ UNCHANGED notRelate

\* main, lines 582-587: the loop is over and the totals are printed.
RelateSummary ==
    /\ rpc = "loop"
    /\ ri > Len(target_rows)
    /\ rpc' = "done"
    /\ UNCHANGED <<remote_at_load, list_meta, all_values, ws, target_rows, ri,
                   page, rfaults, traffic, existing_org_map, existing_contact_map, existing_entry_map,
                   counts, relate_log, next_id>>
    /\ UNCHANGED notRelate

NextRelate == Preflight \/ ReconcileRow \/ RelateSummary

\* The run over a worksheet of rows that differ in their eligibility only.
PreflightOfEligibility == PreflightOver(EligibilityRows)

NextEligibility == PreflightOfEligibility \/ ReconcileRow \/ RelateSummary

(***************************************************************************)
(* The judges called on their own: one text, with or without the          *)
(* credential, and one reply of the remote service.                        *)
(***************************************************************************)
\* " " 新発売 調査 回収 韓国 コスメ
JudgeWords == {" ", "shinhatsubai", "chosa", "kaishu", "kankoku", "kosume"}

\* The same reply without its ```json fence.
Bare(reply) == [reply EXCEPT !.fenced = FALSE]

\* The replies of S and, of each JSON object among them, the fenced form.
WithFence(S) ==
    S \cup {[r EXCEPT !.fenced = TRUE] : r \in {x \in S : x.kind = "text" /\ x.valid}}

NoOutput == [fn |-> "none"]

\* What one call leaves: the reply, the result, and the result the same
\* reply gives without its fence.
Output(fn, reply, res, bare) ==
    [fn |-> fn, reply |-> reply, res |-> res, bare |-> bare]

InitJudges ==
    /\ jin \in [key : BOOLEAN, text : SeqsUpTo(JudgeWords, MaxWords)]
    /\ jout = NoOutput

\* await _translate_ja_to_ko_openai(text)
Translate ==
    /\ jout = NoOutput
    /\ \E reply \in RepliesTo(
              _translate_ja_to_ko_openai(jin.text, jin.key, Raise).called,
              TranslateReplies) :
          jout' = Output("translate", reply,
                         _translate_ja_to_ko_openai(jin.text, jin.key, reply),
                         _translate_ja_to_ko_openai(jin.text, jin.key, Bare(reply)))
    /\ UNCHANGED jin
    /\ UNCHANGED notJudges

\* await interpret_metadata_openai(..., keywords=text, ...)
InterpretMetadata ==
    /\ jout = NoOutput
    /\ \E reply \in RepliesTo(interpret_metadata_openai(jin.key, Raise).called,
                               WithFence(MetaReplies)) :
          jout' = Output("metadata", reply,
                         interpret_metadata_openai(jin.key, reply),
                         interpret_metadata_openai(jin.key, Bare(reply)))
    /\ UNCHANGED jin
    /\ UNCHANGED notJudges

\* await judge_suitability(text, title_ko)
JudgeSuitability ==
    /\ jout = NoOutput
    /\ \E reply \in RepliesTo(judge_suitability(jin.text, jin.key, Raise).called,
                               WithFence(SuitReplies)) :
          jout' = Output("suitability", reply,
                         judge_suitability(jin.text, jin.key, reply),
                         judge_suitability(jin.text, jin.key, Bare(reply)))
    /\ UNCHANGED jin
    /\ UNCHANGED notJudges

\* await judge_korean_company(company, address, url, keywords=text)
JudgeOrigin ==
    /\ jout = NoOutput
    /\ \E reply \in RepliesTo(judge_korean_company(jin.text, jin.key, Raise).called,
                               WithFence(OriginReplies)) :
          jout' = Output("origin", reply,
                         judge_korean_company(jin.text, jin.key, reply),
                         judge_korean_company(jin.text, jin.key, Bare(reply)))
    /\ UNCHANGED jin
    /\ UNCHANGED notJudges

\* local_first_filter(text) of prtimes_beauty_today.py: no remote call.
LocalFirstFilter ==
    /\ jout = NoOutput
    /\ jout' = Output("local_first_filter", Raise, local_first_filter(jin.text),
                      local_first_filter(jin.text))
    /\ UNCHANGED jin
    /\ UNCHANGED notJudges

NextJudges ==
    \/ Translate
    \/ InterpretMetadata
    \/ JudgeSuitability
    \/ JudgeOrigin
    \/ LocalFirstFilter

(***************************************************************************)
(* 02_analyzer.py: _save_intermediate called several times with one        *)
(* buffer, on a file that may already hold rows.                           *)
(***************************************************************************)
BufferRows == {"row_a", "row_b"}

NoFile == <<"no file">>

\* The buffer, the file before the first call, the file now, the file the
\* first call left and the calls made.
InitSaves ==
    \E buffer \in SeqsUpTo(BufferRows, MaxTotal),
       before \in SeqsUpTo(BufferRows, MaxTotal) :
        saved = [buffer |-> buffer, before |-> before, file |-> before,
                 first |-> NoFile, calls |-> 0]

\* _save_intermediate(results, final_path), lines 255-260.
SaveIntermediate ==
    /\ saved.calls < MaxSaves
    /\ saved' = [saved EXCEPT
                   !.file = _save_intermediate(saved.buffer, saved.file),
                   !.first = IF saved.calls = 0
                             THEN _save_intermediate(saved.buffer, saved.file)
                             ELSE saved.first,
                   !.calls = saved.calls + 1]
    /\ UNCHANGED notSaves

NextSaves == SaveIntermediate

(***************************************************************************)
(* prtimes_beauty_crawler.py: the detail loop of main, lines 297-354 (the  *)
(* loop of prtimes_beauty_today.py, lines 396-462, saves the same way).    *)
(***************************************************************************)
DetailSaveIntervals == {1, 2}

NoOutputFile == [exists |-> FALSE, headers |-> 0, rows |-> << >>]

\* A file left by an earlier run of the same day.
OldOutputFile ==
    [exists |-> TRUE, headers |-> 1, rows |-> <<[link |-> 0, detail |-> TRUE]>>]

\* lines 309-323: the record of an article whose detail page did not load
\* holds the fields of the list page only; lines 331-345: the full record.
DetailRecord(link, loaded) == [link |-> link, detail |-> loaded]

\* lines 350-351: start_idx = (i - 1) // SAVE_INTERVAL * SAVE_INTERVAL and
\* chunk = results[start_idx:i].
Chunk(res, i, interval) ==
    SubSeq(res, ((i - 1) \div interval) * interval + 1, i)

\* lines 352-354: to_csv(OUTPUT_FILE, mode="a", header=not exists).
AppendCsv(file, chunk) ==
    [exists |-> TRUE,
     headers |-> IF file.exists THEN file.headers ELSE 1,
     rows |-> file.rows \o chunk]

\* lines 294-297: the articles are listed (seen_links keeps their links
\* distinct) and results is empty.
InitDetail ==
    /\ DETAIL_SAVE_INTERVAL \in DetailSaveIntervals
    /\ \E n \in 0..MaxListed : article_links = [k \in 1..n |-> k]
    /\ detail_results = << >>
    /\ output_file \in {NoOutputFile, OldOutputFile}
    /\ file_at_start = output_file
    /\ dpc = "loop"

\* One iteration of the loop, lines 298-354: the detail page loads or not.
CollectDetail ==
    /\ dpc = "loop"
    /\ Len(detail_results) < Len(article_links)
    /\ LET i == Len(detail_results) + 1
           total == Len(article_links)
       IN \E loaded \in BOOLEAN :
            LET res == Append(detail_results, DetailRecord(article_links[i], loaded))
            IN /\ detail_results' = res
               /\ output_file' =
                     IF loaded /\ (i % DETAIL_SAVE_INTERVAL = 0 \/ i = total)
                     THEN AppendCsv(output_file,
                                    Chunk(res, i, DETAIL_SAVE_INTERVAL))
                     ELSE \* line 323: continue
                          output_file
    /\ UNCHANGED <<DETAIL_SAVE_INTERVAL, article_links, file_at_start, dpc>>
    /\ UNCHANGED notDetail

\* lines 356-357: the loop is over and the browser is closed.
CloseBrowser ==
    /\ dpc = "loop"
    /\ Len(detail_results) = Len(article_links)
    /\ dpc' = "done"
    /\ UNCHANGED <<DETAIL_SAVE_INTERVAL, article_links, detail_results, output_file,
                   file_at_start>>
    /\ UNCHANGED notDetail

NextDetail == CollectDetail \/ CloseBrowser

(***************************************************************************)
(* 03_to_sheets.py: main, run once or several times on one final CSV.      *)
(***************************************************************************)
Links == {"", "u1", "u2"}     \* "": the cell of the article link is empty

\* The worksheet: no row at all, or a header row (with or without the two
\* status columns) and data rows.
NoSheet == [header |-> "none", rows |-> << >>]

SheetRow(link, status) == [link |-> link, status |-> status]

SheetsAtStart ==
    {NoSheet} \cup
    {[header |-> h, rows |-> r] :
        h \in {"plain", "full"},
        r \in {<< >>,
               <<SheetRow("u1", "done")>>,
               <<SheetRow("u1", "")>>,
               <<SheetRow("u1", "done"), SheetRow("u2", "failed")>>}}

\* line 38: pd.read_csv(csv_path, encoding="utf-8-sig"): an empty cell is
\* read as NaN.
NaN == "<NaN>"
ReadCell(cell) == IF cell = "" THEN NaN ELSE cell

\* line 85: df[LINK_COL].astype(str): NaN becomes the text "nan".
AsTypeStr(v) == IF v = NaN THEN "nan" ELSE v

\* line 98: "" if pd.isna(val) else str(val)
CellText(v) == IF v = NaN THEN "" ELSE v

\* lines 54 and 64-68: the links of the data rows, the empty ones left out.
ExistingLinks(sh) ==
    IF sh.header = "none" THEN {}
    ELSE {sh.rows[k].link : k \in {j \in DOMAIN sh.rows : sh.rows[j].link # ""}}

\* line 85: the rows of the CSV whose link, as text, is not in the sheet.
NewRows(df_links, existing_links) ==
    SelectSeq(df_links, LAMBDA v : AsTypeStr(v) \notin existing_links)

\* lines 48-53 and 70-79: the header row is written when the sheet is empty
\* and completed when the status columns are missing.
HeaderAfter(sh) == "full"

\* lines 91-108: the new rows are appended below the rows of the sheet.
AppendRows(sh, new_links) ==
    [header |-> HeaderAfter(sh),
     rows |-> sh.rows \o [k \in 1..Len(new_links) |->
                             SheetRow(CellText(new_links[k]), "")]]

InitSheets ==
    /\ final_rows \in SeqsUpTo(Links, MaxCsvRows)
    /\ worksheet \in SheetsAtStart
    /\ sheet_at_start = worksheet
    /\ sheet_after_first = NoSheet
    /\ loads = 0

\* main(csv_path), lines 36-111.
LoadCsv ==
    /\ loads < MaxLoads
    /\ LET df_links == [k \in 1..Len(final_rows) |-> ReadCell(final_rows[k])]
           new_links == NewRows(df_links, ExistingLinks(worksheet))
           after == IF new_links = << >>
                    THEN \* lines 87-89: only the header was touched
                         [worksheet EXCEPT !.header = HeaderAfter(worksheet)]
                    ELSE AppendRows(worksheet, new_links)
       IN /\ worksheet' = after
          /\ sheet_after_first' = IF loads = 0 THEN after ELSE sheet_after_first
    /\ loads' = loads + 1
    /\ UNCHANGED <<final_rows, sheet_at_start>>
    /\ UNCHANGED notSheets

NextSheets == LoadCsv

(***************************************************************************)
(* The programs run one at a time: each specification starts one of them   *)
(* and holds the others still.                                             *)
(***************************************************************************)
\* The analysis is not running.
IdleAnalysis ==
    /\ OPENAI_API_KEY = FALSE
    /\ SAVE_INTERVAL = 1
    /\ EARLY_STOP_N = 1
    /\ input_csv = << >>
    /\ df = << >>
    /\ pc = "done"
    /\ results = << >>
    /\ suitable_count = 0
    /\ final_csv = << >>
    /\ reported = NoReport
    /\ issued = << >>
    /\ faults = 0
    /\ flushed = 0
    /\ run = 1
    /\ flushedAtCrash = 0

\* The crawler is not running.
IdleCrawler ==
    /\ GEMINI_API_KEY = FALSE
    /\ GEMINI_RATE_LIMIT_CALLS = 1
    /\ GEMINI_RATE_LIMIT_WINDOW_SEC = 1
    /\ now = 0
    /\ gemini_call_times = << >>
    /\ gemini_lock = 0
    /\ callers = {}
    /\ articles = << >>
    /\ gpc = << >>
    /\ wake = << >>
    /\ verdicts = << >>
    /\ pending = << >>
    /\ issue_log = << >>

\* The reconciliation is not running.
IdleRelate ==
    /\ remote_at_load = EmptyStore(NoList)
    /\ page = 0
    /\ rfaults = 0
    /\ traffic = NoTraffic
    /\ list_meta = NoList
    /\ all_values = << >>
    /\ ws = << >>
    /\ target_rows = << >>
    /\ ri = 1
    /\ rpc = "done"
    /\ existing_org_map = << >>
    /\ existing_contact_map = << >>
    /\ existing_entry_map = << >>
    /\ counts = NoCounts
    /\ relate_log = << >>
    /\ next_id = FirstFreshId

\* No judge is called on its own.
IdleJudges ==
    /\ jin = [key |-> FALSE, text |-> << >>]
    /\ jout = NoOutput

\* The detail loop is not running.
IdleDetail ==
    /\ DETAIL_SAVE_INTERVAL = 1
    /\ article_links = << >>
    /\ detail_results = << >>
    /\ output_file = NoOutputFile
    /\ file_at_start = NoOutputFile
    /\ dpc = "done"

\* 03_to_sheets.py is not running.
IdleSheets ==
    /\ final_rows = << >>
    /\ worksheet = NoSheet
    /\ sheet_at_start = NoSheet
    /\ sheet_after_first = NoSheet
    /\ loads = 0

\* No save is being repeated.
IdleSaves ==
    saved = [buffer |-> << >>, before |-> << >>, file |-> << >>,
             first |-> NoFile, calls |-> 0]

StartAnalysis ==
    /\ InitAnalysis
    /\ IdleCrawler /\ IdleRelate /\ IdleJudges
    /\ IdleSaves /\ IdleDetail /\ IdleSheets

StartCrawler ==
    /\ InitCrawler
    /\ IdleAnalysis /\ IdleRelate /\ IdleJudges
    /\ IdleSaves /\ IdleDetail /\ IdleSheets

StartRelate ==
    /\ InitRelate
    /\ IdleAnalysis /\ IdleCrawler /\ IdleJudges
    /\ IdleSaves /\ IdleDetail /\ IdleSheets

StartConcurrent ==
    /\ InitConcurrent
    /\ IdleAnalysis /\ IdleRelate /\ IdleJudges
    /\ IdleSaves /\ IdleDetail /\ IdleSheets

StartJudges ==
    /\ InitJudges
    /\ IdleAnalysis /\ IdleCrawler /\ IdleRelate
    /\ IdleSaves /\ IdleDetail /\ IdleSheets

StartSaves ==
    /\ InitSaves
    /\ IdleAnalysis /\ IdleCrawler /\ IdleRelate
    /\ IdleJudges /\ IdleDetail /\ IdleSheets

StartDetail ==
    /\ InitDetail
    /\ IdleAnalysis /\ IdleCrawler /\ IdleRelate
    /\ IdleJudges /\ IdleSaves /\ IdleSheets

StartSheets ==
    /\ InitSheets
    /\ IdleAnalysis /\ IdleCrawler /\ IdleRelate
    /\ IdleJudges /\ IdleSaves /\ IdleDetail

SpecAnalysis == StartAnalysis /\ [][NextAnalysis]_vars

SpecResume == StartAnalysis /\ [][NextResume]_vars

SpecCrawler == StartCrawler /\ [][NextCrawler]_vars

\* The crawler with time that passes and an event loop that resumes a task
\* whose asyncio.sleep is over.
SpecCrawlerFair ==
    /\ StartCrawler
    /\ [][NextCrawler]_vars
    /\ WF_vars(Tick)
    /\ WF_vars(\E t \in callers : AfterSleep(t))

SpecRelate == StartRelate /\ [][NextRelate]_vars

\* The reconciliation over rows that differ in their eligibility.
SpecEligibility == StartRelate /\ [][NextEligibility]_vars

\* One call of one judge.
SpecJudges == StartJudges /\ [][NextJudges]_vars

\* Several tasks share the throttle.
SpecConcurrent == StartConcurrent /\ [][NextCrawler]_vars

\* _save_intermediate repeated on one buffer.
SpecSaves == StartSaves /\ [][NextSaves]_vars

\* The detail loop of the crawler.
SpecDetail == StartDetail /\ [][NextDetail]_vars

\* The final CSV loaded into the worksheet, once or again.
SpecSheets == StartSheets /\ [][NextSheets]_vars

(***************************************************************************)
(* Claims about run_analysis.                                              *)
(***************************************************************************)
Rejected(i) == ~local_suitability_filter(df[i].title)

ApiErrorReasons == {"API error: transport", "API error: parse"}

Undetermined == EnsureValue(PyNone)    \* how None is held in the buffer

\* C1: for a record whose title holds a negative keyword no remote call
\* (translation, metadata, suitability, origin) is issued, whatever the
\* credential state.
C1_RejectedRecordHasNoRemoteCall ==
    \A i \in 1..Len(df) : Rejected(i) => issued[i] = {}

\* C3: when the remote suitability call fails in transport or its reply does
\* not parse, the record's suitability is the undetermined value (None) with
\* the failure text as rationale, never False.
C3_FailedCallIsUndetermined ==
    \A i \in 1..Len(results) :
        results[i].reason \in ApiErrorReasons => results[i].suit = Undetermined

\* C4: if one of the first EARLY_STOP_N processed records is undetermined, the
\* early stop does not fire: the run does not end with exactly EARLY_STOP_N
\* records processed while a further record exists.
C4_UndeterminedBlocksEarlyStop ==
    (/\ Len(df) > EARLY_STOP_N
     /\ Len(results) >= EARLY_STOP_N
     /\ \E j \in 1..EARLY_STOP_N : results[j].suit = Undetermined)
    => (pc = "loop" \/ Len(results) > EARLY_STOP_N)

\* C5: if the first EARLY_STOP_N processed records are all decided unsuitable,
\* processing halts right after record EARLY_STOP_N: no later record is
\* processed and no remote call is issued for one.
C5_EarlyStopHalts ==
    (/\ Len(results) >= EARLY_STOP_N
     /\ \A j \in 1..EARLY_STOP_N : results[j].suit = "False")
    => /\ Len(results) = EARLY_STOP_N
       /\ pc # "loop"
       /\ \A i \in 1..Len(df) : i > EARLY_STOP_N => issued[i] = {}

C5_Witness ==
    /\ pc = "done"
    /\ EARLY_STOP_N = 2
    /\ Len(df) > EARLY_STOP_N
    /\ Len(results) = EARLY_STOP_N
    /\ \A j \in 1..EARLY_STOP_N : results[j].suit = "False"
    /\ \E j \in 1..EARLY_STOP_N : "suitability" \in issued[j]

\* C6: right after record number n is processed, with n a multiple of
\* SAVE_INTERVAL or n the total, the final CSV holds exactly the first n
\* enriched records in source order, whatever it held before.
C6_SaveHoldsFirstN ==
    LET n == Len(results)
    IN (n > 0 /\ (n % SAVE_INTERVAL = 0 \/ n = Len(df)))
       => /\ Len(final_csv) = n
          /\ final_csv = results
          /\ \A j \in 1..n : /\ final_csv[j].title = df[j].title
                             /\ final_csv[j].comp = df[j].comp
                             /\ final_csv[j].keywords = df[j].keywords

C6_Witness ==
    /\ pc = "loop"
    /\ SAVE_INTERVAL = 1
    /\ Len(results) = 2
    /\ Len(df) > 2
    /\ final_csv = results

\* C7: for every SAVE_INTERVAL and EARLY_STOP_N, when run_analysis ends
\* (completion or early stop) the persisted rows are the buffer of all
\* processed records and the reported processed count is their number.
C7_EndStateIsPersisted ==
    pc = "done" => /\ final_csv = results
                   /\ reported.processed = Len(final_csv)

\* C8: a rerun after a crash issues no remote call for a record that the
\* crashed run had already saved.
C8_RerunSkipsSavedRecords ==
    run = 2 => \A i \in 1..flushedAtCrash : issued[i] = {}

(***************************************************************************)
(* Claims about the Gemini throttle.                                       *)
(***************************************************************************)
\* C2: whatever mix of the remote calls succeed or raise, the number of
\* remote calls issued within any interval shorter than
\* GEMINI_RATE_LIMIT_WINDOW_SEC never exceeds GEMINI_RATE_LIMIT_CALLS: any
\* GEMINI_RATE_LIMIT_CALLS + 1 calls in a row span at least one window.
C2_WindowNeverExceeded ==
    Len(issue_log) > GEMINI_RATE_LIMIT_CALLS
    => issue_log[Len(issue_log)] - issue_log[Len(issue_log) - GEMINI_RATE_LIMIT_CALLS]
          >= GEMINI_RATE_LIMIT_WINDOW_SEC

(***************************************************************************)
(* Claims about the reconciliation.                                        *)
(***************************************************************************)
\* C9: in one run each organization name is the subject of at most one
\* Organization create that returned: of two rows with the same name whose
\* Organization upsert returned, the later one is an update, and both are
\* updates when the name was in the preloaded map.
C9_OneCreatePerName ==
    \A i, j \in DOMAIN relate_log :
        (/\ relate_log[i].kind = "org"
         /\ relate_log[j].kind = "org"
         /\ relate_log[i].key = relate_log[j].key)
        => /\ i < j => relate_log[j].verb = "updated"
           /\ relate_log[i].key \in DOMAIN remote_at_load.orgs
                 => relate_log[i].verb = "updated"

\* Two rows of the same name: the first created the Organization, the second
\* updated it.
C9_Witness ==
    \E i, j \in DOMAIN relate_log :
        /\ i < j
        /\ relate_log[i].kind = "org" /\ relate_log[i].verb = "created"
        /\ relate_log[j].kind = "org" /\ relate_log[j].verb = "updated"
        /\ relate_log[i].key = relate_log[j].key
        /\ relate_log[i].row # relate_log[j].row

\* C10: with an existing list, each entryable id is the subject of at most
\* one List-entry create in a run.
C10_OneEntryCreatePerIdentity ==
    \A i, j \in DOMAIN relate_log :
        (/\ relate_log[i].kind = "entry" /\ relate_log[i].verb = "created"
         /\ relate_log[j].kind = "entry" /\ relate_log[j].verb = "created"
         /\ relate_log[i].key = relate_log[j].key)
        => i = j

\* C11: contact identity is the email compared without regard to letter
\* case: of two rows whose emails differ at most in letter case and whose
\* Contact upsert returned, the later one is an update of the contact id of
\* the earlier one, so at most one of them is a create.
C11_OneContactPerEmail ==
    \A i, j \in DOMAIN relate_log :
        (/\ i < j
         /\ relate_log[i].kind = "contact"
         /\ relate_log[j].kind = "contact"
         /\ StripLower(relate_log[i].key) = StripLower(relate_log[j].key))
        => /\ relate_log[j].verb = "updated"
           /\ relate_log[j].id = relate_log[i].id

\* Two rows whose emails differ in letter case only: the first created the
\* Contact, the second updated that contact.
C11_Witness ==
    \E i, j \in DOMAIN relate_log :
        /\ i < j
        /\ relate_log[i].kind = "contact" /\ relate_log[i].verb = "created"
        /\ relate_log[j].kind = "contact" /\ relate_log[j].verb = "updated"
        /\ relate_log[i].key # relate_log[j].key
        /\ StripLower(relate_log[i].key) = StripLower(relate_log[j].key)
        /\ relate_log[i].id = relate_log[j].id

\* What the sheet held at start-up, row by row.
HadStatus(i) == col(all_values[i].status) # ""
WasEligible(i) ==
    /\ StripLower(col(all_values[i].suit)) = "true"
    /\ col(all_values[i].korea) = "non-KR"
    /\ col(all_values[i].email) # ""

\* C12: a run over a sheet in which some rows already have a status issues
\* upserts only for the eligible rows whose status is empty, and writes no
\* cell of a row whose status was not empty.
C12_FlaggedRowsUntouched ==
    /\ \A i \in DOMAIN all_values :
          HadStatus(i)
          => /\ ws[i] = all_values[i]
             /\ \A k \in DOMAIN relate_log : relate_log[k].row # i
    /\ \A k \in DOMAIN relate_log :
          /\ WasEligible(relate_log[k].row)
          /\ ~HadStatus(relate_log[k].row)
    /\ \A i \in DOMAIN all_values :
          ws[i] # all_values[i]
          => WasEligible(i) /\ ~HadStatus(i)

\* The run is over: it upserted a row of empty status and the sheet holds a
\* row that was flagged failed, with its message.
C12_Witness ==
    /\ rpc = "done"
    /\ relate_log # << >>
    /\ \E i \in DOMAIN all_values :
          /\ WasEligible(i)
          /\ all_values[i].status = "failed"
          /\ ws[i].msg = "Org failed: 500"

OrgFailureMessages == {"Org failed: 422", "Org failed: 500", "Org error"}

\* C13: when an Organization create that carries a domain is rejected with
\* 422 and the retry is accepted, exactly two create requests are sent for
\* the row, the second without the domains field, the Organization upsert
\* succeeds, and the row ends done when its Contact and List-entry upserts
\* succeed too.
C13_DomainRetry ==
    \A k \in DOMAIN relate_log :
        LET w == relate_log[k]
        IN (/\ w.kind = "org"
            /\ w.calls[1].method = "POST"
            /\ w.calls[1].domains
            /\ w.calls[1].reply = "422")
           => /\ Len(w.calls) = 2
              /\ w.calls[2].method = "POST"
              /\ ~w.calls[2].domains
              /\ w.calls[2].reply = "2xx"
              /\ w.verb = "created"
              /\ ws[w.row].msg \notin OrgFailureMessages
              /\ (/\ \E c \in DOMAIN relate_log :
                        relate_log[c].kind = "contact" /\ relate_log[c].row = w.row
                  /\ list_meta.present =>
                        \E e \in DOMAIN relate_log :
                           relate_log[e].kind = "entry" /\ relate_log[e].row = w.row)
                 => ws[w.row].status = "done"

\* A row whose Organization create was rejected with 422 and accepted without
\* the domain, and that ended done.
C13_Witness ==
    \E k \in DOMAIN relate_log :
        /\ relate_log[k].kind = "org"
        /\ relate_log[k].verb = "created"
        /\ Len(relate_log[k].calls) = 2
        /\ relate_log[k].calls[1].reply = "422"
        /\ ws[relate_log[k].row].status = "done"

\* C14: a remote failure in an upsert of one target row never ends the loop:
\* the step in which a row fails writes failed and a message to that row and
\* leaves the loop running at the next row; the summary is reached only
\* after every target row was attempted.
C14_FailureDoesNotEndLoop ==
    [][/\ counts'.fail_count > counts.fail_count
          => /\ rpc' = "loop"
             /\ ri' = ri + 1
             /\ ws'[target_rows[ri].idx].status = "failed"
             /\ ws'[target_rows[ri].idx].msg # ""
       /\ rpc' = "done" => ri > Len(target_rows)]_vars

\* A row failed on a remote request and a later target row was done.
C14_Witness ==
    \E a, b \in DOMAIN target_rows :
        /\ a < b
        /\ ws[target_rows[a].idx].status = "failed"
        /\ ws[target_rows[a].idx].msg # "no company name"
        /\ ws[target_rows[b].idx].status = "done"

Upserted(kind, idx) ==
    \E k \in DOMAIN relate_log :
        relate_log[k].kind = kind /\ relate_log[k].row = idx

\* C15: when a run completes every target row has exactly one status, done
\* or failed; done is written only after the Organization, the Contact and
\* (when the list exists) the List-entry upsert all succeeded, and leaves the
\* message empty; failed carries a non-empty message; success count plus
\* fail count equals the number of target rows.
C15_OneOutcomePerRow ==
    rpc = "done"
    => /\ \A k \in DOMAIN target_rows :
             LET idx == target_rows[k].idx
             IN /\ ws[idx].status \in {"done", "failed"}
                /\ ws[idx].status = "done"
                      => /\ ws[idx].msg = ""
                         /\ Upserted("org", idx)
                         /\ Upserted("contact", idx)
                         /\ list_meta.present => Upserted("entry", idx)
                /\ ws[idx].status = "failed" => ws[idx].msg # ""
       /\ counts.success_count + counts.fail_count = Len(target_rows)
       /\ counts.success_count =
             Cardinality({k \in DOMAIN target_rows :
                             ws[target_rows[k].idx].status = "done"})

\* A completed run with a row done, whose stale message was cleared, and a
\* row failed.
C15_Witness ==
    /\ rpc = "done"
    /\ \E a, b \in DOMAIN target_rows :
          /\ ws[target_rows[a].idx].status = "done"
          /\ all_values[target_rows[a].idx].msg # ""
          /\ ws[target_rows[b].idx].status = "failed"

\* C16: every remote read of the preflight completes before the first
\* upsert request is sent, and no listing read is sent after it.
C16_ReadsBeforeWrites ==
    traffic.upserts > 0
    => /\ rpc \in {"loop", "done"}
       /\ traffic.late_reads = 0

\* The preflight loaded the Organization of the remote store into the map
\* and the loop then sent upsert requests.
C16_Witness ==
    /\ traffic.upserts > 0
    /\ relate_log # << >>
    /\ "kaisha-A" \in DOMAIN remote_at_load.orgs
    /\ remote_at_load.listed
    /\ existing_entry_map # << >>

(***************************************************************************)
(* Claims about the throttle's bookkeeping and about the judges.           *)
(***************************************************************************)
\* C17: a remote call that was admitted by _wait_gemini_rate_limit and then
\* raised is counted: when the judge has returned its transport-error
\* verdict, the last entry of the timestamp queue is not older than the
\* moment the call was issued.
C17_RaisedCallIsCounted ==
    \A t \in callers :
        (/\ gpc[t] = "detail"
         /\ pending[t].called
         /\ pending[t].reason = "API error: transport")
        => /\ gemini_call_times # << >>
           /\ gemini_call_times[Len(gemini_call_times)]
                 >= issue_log[Len(issue_log)]

\* A remote call of some task raised.
SomeCallRaised ==
    \E t \in callers :
        \/ pending[t].reason = "API error: transport"
        \/ \E k \in DOMAIN verdicts[t] :
              verdicts[t][k].reason = "API error: transport"

\* C18: with several tasks judging concurrently, admission and recording are
\* one atomic step, so that even when every remote call returns, any
\* GEMINI_RATE_LIMIT_CALLS + 1 admissions in a row span at least one window.
C18_AdmissionIsAtomic ==
    (~SomeCallRaised /\ Len(issue_log) > GEMINI_RATE_LIMIT_CALLS)
    => issue_log[Len(issue_log)] - issue_log[1] >= GEMINI_RATE_LIMIT_WINDOW_SEC

\* C20: no failure of the remote inference service for one article leaves
\* judge_news_suitability as an exception: the judge returns a verdict with a
\* rationale and the detail loop goes on to the next article.
C20_JudgeNeverRaises ==
    \A t \in callers : gpc[t] # "raised"

\* C19: a remote suitability call or a remote origin call is issued only
\* after the throttle has admitted it: when run_analysis has issued one for
\* some record, the throttle has admitted at least one call.
C19_JudgeCallsAreGoverned ==
    (\E i \in DOMAIN issued : issued[i] \cap {"suitability", "origin"} # {})
    => issue_log # << >>

(***************************************************************************)
(* Claims about the failures of the reconciliation.                        *)
(***************************************************************************)
\* C21: with the credential and the identity present, no transport or HTTP
\* failure of a remote call, the preflight calls included, aborts the run.
C21_RemoteFailureNeverAborts ==
    rpc # "aborted"

\* C22: a Contact write and a List-entry write are sent at most once for a
\* record: only the Organization write is sent again after a failed attempt.
C22_ContactAndEntryWrittenOnce ==
    \A k \in DOMAIN relate_log :
        relate_log[k].kind \in {"contact", "entry"}
        => Len(relate_log[k].calls) <= 1

\* C23: the Organization write is sent again without the domain only when
\* the store rejected the supplied domain: an Organization upsert that took
\* two requests had its first request rejected because of the domain.
C23_RetryOnlyForDomainRejection ==
    \A k \in DOMAIN relate_log :
        (relate_log[k].kind = "org" /\ Len(relate_log[k].calls) = 2)
        => relate_log[k].calls[1].reply = "422"

(***************************************************************************)
(* Claims about the stop of run_analysis and about its judges.             *)
(***************************************************************************)
\* C24: when run_analysis is stopped by a signal, one final save persists
\* every record processed so far before the process ends: the file of a
\* stopped run holds the whole buffer.
C24_StopFlushesBuffer ==
    (pc = "crashed" /\ run = 1) => final_csv = results

\* The negative keywords the text holds.
NegativeHits(text) == Range(text) \cap Range(NEGATIVE_KEYWORDS)

\* The rationale names the keyword w.
NamesKeyword(reason, w) == reason = "negative keyword (" \o w \o ")"

\* C25: a title rejected by the local filter is marked unsuitable (False)
\* with a rationale that names a negative keyword of the title, by
\* judge_suitability and by local_first_filter alike.
C25_RejectionNamesKeyword ==
    NegativeHits(jin.text) # {}
    => /\ jout.fn = "suitability"
          => /\ jout.res.suit = PyFalse
             /\ \E w \in NegativeHits(jin.text) : NamesKeyword(jout.res.reason, w)
       /\ jout.fn = "local_first_filter"
          => /\ ~jout.res.passed
             /\ \E w \in NegativeHits(jin.text) : NamesKeyword(jout.res.reason, w)

\* The domestic-market markers the keyword field holds.
KoreaHits(text) == Range(text) \cap Range(KOREA_KEYWORDS_JA)

\* C26: when the keyword field holds a domestic-market marker,
\* judge_korean_company returns the domestic label with a rationale naming
\* a marker of the field and issues no remote call, with or without a
\* credential.
C26_LocalOriginWins ==
    (jout.fn = "origin" /\ KoreaHits(jin.text) # {})
    => /\ jout.res.label = "KR"
       /\ ~jout.res.called
       /\ jout.reply = Raise
       /\ \E w \in KoreaHits(jin.text) : jout.res.reason = "keyword: " \o w

\* The origin judge was called with a credential on a keyword field that
\* holds a marker.
C26_Witness ==
    /\ jout.fn = "origin"
    /\ jin.key
    /\ "kankoku" \in Range(jin.text)
    /\ jout.res.label = "KR"

\* C27: with no credential a run of run_analysis issues no remote call, and
\* every processed record whose title holds no negative keyword and whose
\* keyword field holds no domestic-market marker has the undetermined
\* suitability with the fixed no-credential rationale and the unknown origin.
C27_NoCredentialRunsOffline ==
    ~OPENAI_API_KEY
    => /\ \A i \in DOMAIN issued : issued[i] = {}
       /\ \A i \in 1..Len(results) :
             (NegativeHits(df[i].title) = {} /\ KoreaHits(df[i].keywords) = {})
             => /\ results[i].suit = Undetermined
                /\ results[i].reason = "no API key (OPENAI_API_KEY)"
                /\ results[i].kr_label = "unknown"
                /\ results[i].kr_reason = "no API key"

\* A run without credential that ended after two records, one of them with
\* a clean title and one rejected by the local filter.
C27_Witness ==
    /\ ~OPENAI_API_KEY
    /\ pc = "done"
    /\ Len(results) >= 2
    /\ \E i, j \in 1..Len(results) :
          /\ results[i].reason = "no API key (OPENAI_API_KEY)"
          /\ NegativeHits(df[j].title) # {}

\* C28: for judge_suitability, judge_korean_company and
\* interpret_metadata_openai, a JSON object returned in a ```json fence
\* gives the result the same object gives when it is returned bare.
C28_FenceMakesNoDifference ==
    (/\ jout.fn \in {"metadata", "suitability", "origin"}
     /\ jout.reply.kind = "text"
     /\ jout.reply.valid
     /\ jout.reply.fenced)
    => jout.res = jout.bare

\* C29: translation, the suitability judge and the origin judge return at
\* once and issue no remote call for an empty or whitespace-only text, also
\* when the credential is present; the translation of such a text is empty.
C29_BlankInputIsNotSent ==
    (IsBlank(jin.text) /\ jout.fn \in {"translate", "suitability", "origin"})
    => /\ ~jout.res.called
       /\ jout.fn = "translate" => jout.res.value = << >>

(***************************************************************************)
(* Claims about the eligibility of the rows.                               *)
(***************************************************************************)
\* The row passed every test of the filter when the sheet was read.
EligibleAtLoad(i) ==
    /\ all_values[i].suit \in {"True", "TRUE", "true"}
    /\ all_values[i].korea = "non-KR"
    /\ all_values[i].email \notin {"", "wordpress@b.jp", "WordPress@b.jp"}
    /\ all_values[i].status = ""

\* C30: upserts are issued only for the rows that were eligible when the
\* sheet was read (suitability true, origin exactly the foreign label, a
\* usable email, an empty status): no other row is the subject of a remote
\* write and no cell of another row is written.
C30_OnlyEligibleRowsAreWritten ==
    /\ \A k \in DOMAIN relate_log : EligibleAtLoad(relate_log[k].row)
    /\ \A k \in DOMAIN target_rows : EligibleAtLoad(target_rows[k].idx)
    /\ \A i \in DOMAIN all_values :
          ~EligibleAtLoad(i)
          => /\ ws[i] = all_values[i]
             /\ \A k \in DOMAIN relate_log : relate_log[k].row # i
    /\ traffic.upserts > 0 => \E i \in DOMAIN all_values : EligibleAtLoad(i)

\* The run is over; the sheet held a row of unknown origin beside an eligible
\* row, and only the eligible one was upserted.
C30_Witness ==
    /\ rpc = "done"
    /\ relate_log # << >>
    /\ \E i, j \in DOMAIN all_values :
          /\ all_values[i].korea = "unknown"
          /\ EligibleAtLoad(j)
          /\ ws[j].status = "done"

(***************************************************************************)
(* C31: the checkpoint flush is idempotent: after _save_intermediate has   *)
(* been called again with the same buffer, the file is identical to the    *)
(* file the first call left, whatever the file held before.                *)
(***************************************************************************)
C31_FlushIdempotent ==
    saved.calls >= 1 => saved.file = saved.first

\* Two calls with a non-empty buffer, on a file that held other rows.
C31_Witness ==
    /\ saved.calls = 2
    /\ saved.buffer # << >>
    /\ saved.before # << >>
    /\ saved.before # saved.buffer

(***************************************************************************)
(* C32: every enriched record carries the source fields (title, raw        *)
(* company name, keywords, ...) with exactly the values the record has in  *)
(* the input file; only derived fields are added or set.                   *)
(***************************************************************************)
C32_SourceFieldsKept ==
    \A i \in 1..Len(results) :
        /\ results[i].title = input_csv[i].title
        /\ results[i].comp = input_csv[i].comp
        /\ results[i].keywords = input_csv[i].keywords

(***************************************************************************)
(* C33: at every point of a run of run_analysis the final CSV holds the    *)
(* enriched records of a prefix of the source sequence, in source order    *)
(* and all from the latest flush, and it is behind the records processed   *)
(* by fewer than SAVE_INTERVAL.                                            *)
(***************************************************************************)
C33_FileIsRecentPrefix ==
    /\ Len(final_csv) <= Len(results)
    /\ Len(results) <= Len(df)
    /\ \A j \in 1..Len(final_csv) :
          /\ final_csv[j] = results[j]
          /\ final_csv[j].title = df[j].title
          /\ final_csv[j].comp = df[j].comp
          /\ final_csv[j].keywords = df[j].keywords
    /\ Len(results) - Len(final_csv) < SAVE_INTERVAL

\* Two flushes have happened and the run goes on.
C33_Witness ==
    /\ SAVE_INTERVAL = 1
    /\ EARLY_STOP_N = 2
    /\ Len(final_csv) = 2
    /\ Len(df) = 3
    /\ pc = "loop"

(***************************************************************************)
(* C35: the early-stop decision is taken once, right after record          *)
(* EARLY_STOP_N: the loop is left before the last record only then, a run  *)
(* over fewer than EARLY_STOP_N records is never cut short, and once a     *)
(* later record has been processed the run goes to the last record.        *)
(***************************************************************************)
C35_EarlyStopOnlyAtN ==
    [][/\ (pc = "loop" /\ pc' # "loop" /\ Len(results') < Len(df))
            => Len(results') = EARLY_STOP_N
       /\ (pc = "loop" /\ pc' # "loop" /\ Len(df) < EARLY_STOP_N)
            => Len(results') = Len(df)
       /\ (pc = "loop" /\ Len(results) >= EARLY_STOP_N)
            => /\ Len(results') = Len(results) + 1
               /\ pc' = "loop" <=> Len(results') < Len(df)]_vars

\* A run that went past record EARLY_STOP_N and then met nothing but
\* unsuitable records, up to the last one.
C35_Witness ==
    /\ EARLY_STOP_N = 1
    /\ Len(df) = 3
    /\ Len(results) = 3
    /\ results[1].suit = "True"
    /\ results[2].suit # "True"
    /\ results[3].suit # "True"
    /\ pc = "report"

(***************************************************************************)
(* C40: at the end of run_analysis the suitable count of the report equals *)
(* the number of buffered records whose suitability counts as suitable     *)
(* under the test of the early stop and of the reconciliation filter (the  *)
(* value True or the text "true" in any case), whatever the remote reply   *)
(* carried in is_suitable.                                                 *)
(***************************************************************************)
CountsAsSuitable(v) == v \in {PyTrue, "True", "TRUE", "true", " true "}

C40_ReportCountsSuitableRecords ==
    reported # NoReport =>
        reported.suitable =
            Cardinality({i \in 1..Len(results) : CountsAsSuitable(results[i].suit)})

(***************************************************************************)
(* C34: a call of _wait_gemini_rate_limit that finds the queue full is     *)
(* suspended until the oldest recorded call has left the window (oldest +  *)
(* window) or later, asks for one sleep of at most one window, and then    *)
(* returns.                                                                *)
(***************************************************************************)
C34_FullQueueWaitsAndReturns ==
    /\ [][\A t \in callers :
            /\ (gpc[t] = "wait" /\ gpc'[t] = "sleep")
                 => /\ Len(gemini_call_times) >= GEMINI_RATE_LIMIT_CALLS
                    /\ wake'[t] >= gemini_call_times[1] + GEMINI_RATE_LIMIT_WINDOW_SEC
                    /\ wake'[t] - now <= GEMINI_RATE_LIMIT_WINDOW_SEC
            /\ (gpc[t] \in {"wait", "sleep"} /\ gpc'[t] = "call"
                  /\ Len(gemini_call_times) >= GEMINI_RATE_LIMIT_CALLS)
                 => now >= gemini_call_times[1] + GEMINI_RATE_LIMIT_WINDOW_SEC
            /\ gpc[t] = "sleep"
                 => /\ gpc'[t] \in {"sleep", "call"}
                    /\ wake'[t] = wake[t]
                    /\ gpc'[t] = "call" => now >= wake[t]]_vars
    /\ \A t \in {1} :
          (gpc[t] = "sleep" /\ wake[t] <= MaxTime) ~> (gpc[t] = "call")

\* The caller has slept on a full queue and is back, its call issued at the
\* instant the oldest call left the window.
C34_Witness ==
    /\ gpc[1] = "call"
    /\ wake[1] > 0
    /\ now = wake[1]
    /\ Len(issue_log) >= 2

(***************************************************************************)
(* C37: whenever a row is marked done its Contact is linked to its         *)
(* Organization: the last Contact request the store accepted for the row   *)
(* carried the organization id.                                            *)
(***************************************************************************)
C37_DoneContactCarriesOrganization ==
    \A k \in DOMAIN relate_log :
        (relate_log[k].kind = "contact" /\ ws[relate_log[k].row].status = "done")
        => LET sent == relate_log[k].calls
           IN /\ sent # << >>
              /\ sent[Len(sent)].reply = "2xx"
              /\ sent[Len(sent)].org

(***************************************************************************)
(* C36: when the detail loop of the crawler has finished and the output    *)
(* CSV did not exist before the run, the CSV holds exactly one row for     *)
(* each collected article, in collection order, whichever detail pages     *)
(* failed to load.                                                         *)
(***************************************************************************)
C36_OneRowPerArticle ==
    (dpc = "done" /\ ~file_at_start.exists /\ article_links # << >>)
    => /\ output_file.exists
       /\ Len(output_file.rows) = Len(article_links)
       /\ \A k \in 1..Len(article_links) : output_file.rows[k].link = article_links[k]

(***************************************************************************)
(* C38: loading the same final CSV into the sheet twice in succession is   *)
(* idempotent: the second run appends no row and leaves the sheet as the   *)
(* first run left it, also for a CSV with rows whose article link is       *)
(* empty.                                                                  *)
(***************************************************************************)
C38_SecondLoadChangesNothing ==
    loads >= 2 => worksheet = sheet_after_first

(***************************************************************************)
(* C39: after a run of 03_to_sheets main on a sheet whose data rows had    *)
(* pairwise distinct article links, no two data rows share an article      *)
(* link, also when the CSV repeats a link; and every data row the sheet    *)
(* had is still there, unchanged, status cells included.                   *)
(***************************************************************************)
C39_LinksStayDistinct ==
    loads = 1
    => /\ \A i, j \in DOMAIN worksheet.rows :
             (i # j /\ worksheet.rows[i].link # "")
             => worksheet.rows[i].link # worksheet.rows[j].link
       /\ Len(worksheet.rows) >= Len(sheet_at_start.rows)
       /\ \A k \in DOMAIN sheet_at_start.rows :
             worksheet.rows[k] = sheet_at_start.rows[k]

====
